---- MODULE Spec2Model ----
(***************************************************************************)
(* A model of the command-line agent of main.go: the conversation loop     *)
(* (Agent.Run, Agent.executeTool), the start-up registration of tools      *)
(* (main, LoadDynamicTools), the built-in tools (ReadFile, ListFiles,      *)
(* EditFile, Grep, ExecuteCommand), the path filter and the executor of a  *)
(* dynamic tool.                                                           *)
(*                                                                         *)
(* A Go string is a sequence of tokens: a token is one character or an     *)
(* atomic chunk of text (a file name, a fixed message).  A path string is  *)
(* the sequence of its segment names separated by the token "/".           *)
(***************************************************************************)
EXTENDS Integers, Sequences, FiniteSets, TLC

VARIABLES
    phase,          \* which operation of the program the state belongs to
    tools,          \* Agent.tools: the sequence of tool definitions
    debugMode,      \* Agent.debugMode
    conversation,   \* Agent.Run: the conversation slice
    readUserInput,  \* Agent.Run: the readUserInput flag
    content,        \* Agent.Run: message.Content of the response being handled
    idx,            \* Agent.Run: position of the range loop over message.Content
    toolResults,    \* Agent.Run: the toolResults slice of the current turn
    runErr,         \* what Agent.Run returned (or how the process ended)
    calls,          \* number of model calls issued so far
    transcript,     \* what was printed to the terminal, in order
    executed,       \* the tool functions invoked, in order, each with its command
    environ,        \* the DEBUG variable and the configuration file at start-up
    fs,             \* the file system
    lastIn,         \* the input of the last direct tool invocation
    lastOut         \* the outcome of the last direct tool invocation

vars == <<phase, tools, debugMode, conversation, readUserInput, content, idx,
          toolResults, runErr, calls, transcript, executed, environ, fs, lastIn,
          lastOut>>

loopVars == <<tools, debugMode, conversation, readUserInput, content, idx,
              toolResults, runErr, calls, transcript, executed>>

----------------------------------------------------------------------------
(* Sequences and text *)

Range(s) == {s[i] : i \in DOMAIN s}

\* strings.Contains(s, sub)
ContainsSeq(s, sub) ==
    \E i \in 0..(Len(s) - Len(sub)) :
        \A j \in 1..Len(sub) : s[i + j] = sub[j]

\* strings.HasPrefix(s, p) on token sequences
HasPrefixAt(s, i, p) ==
    /\ i + Len(p) - 1 <= Len(s)
    /\ \A j \in 1..Len(p) : s[i + j - 1] = p[j]

RECURSIVE Concat(_)
Concat(ss) == IF ss = <<>> THEN <<>> ELSE Head(ss) \o Concat(Tail(ss))

RECURSIVE JoinWith(_, _)
JoinWith(ss, sep) ==
    IF ss = <<>> THEN <<>>
    ELSE IF Len(ss) = 1 THEN ss[1]
    ELSE ss[1] \o sep \o JoinWith(Tail(ss), sep)

Sep == "/"

\* The names that start with a dot (strings.HasPrefix(base, ".")).
DotNames == {".", "..", ".env", ".git", ".hidden", ".venv"}

\* Byte order of the names used as directory entries (filepath.Walk visits
\* the entries of a directory in lexical order).
NameOrder == <<".env", ".git", ".hidden", ".venv", "__pycache__", "a.txt", "b.txt",
               "build", "c.bin", "config", "dist", "new.txt", "node_modules", "src",
               "sub", "tools_config.json", "vendor", "x.js", "y.js">>

Rank(n) == CHOOSE i \in DOMAIN NameOrder : NameOrder[i] = n

----------------------------------------------------------------------------
(* Paths *)

\* The segments of a path string as path.Clean sees them: split on the
\* separator, "" and "." dropped; a ".." stays a segment.
RECURSIVE Segs(_)
Segs(t) ==
    IF t = <<>> THEN <<>>
    ELSE IF Head(t) = Sep \/ Head(t) = "." THEN Segs(Tail(t))
    ELSE <<Head(t)>> \o Segs(Tail(t))

\* The path string of a sequence of segments; "." for the empty sequence
\* (filepath.Rel of a directory to itself).
PathText(segs) ==
    IF segs = <<>> THEN <<".">>
    ELSE JoinWith([i \in DOMAIN segs |-> <<segs[i]>>], <<Sep>>)

\* filepath.Base of a relative path string
Base(t) == IF t = <<>> THEN "." ELSE t[Len(t)]

\* path.Clean of the segments of a relative path: a ".." takes back the
\* segment before it, and stays where there is none to take back.
RECURSIVE CleanOnto(_, _)
CleanOnto(done, segs) ==
    IF segs = <<>> THEN done
    ELSE IF Head(segs) = ".." /\ done # <<>> /\ done[Len(done)] # ".."
    THEN CleanOnto(SubSeq(done, 1, Len(done) - 1), Tail(segs))
    ELSE CleanOnto(Append(done, Head(segs)), Tail(segs))

Clean(segs) == CleanOnto(<<>>, segs)

\* path.Dir of a relative path string, as segments: the path up to its last
\* separator, cleaned; no segment stands for ".".
Dir(t) ==
    LET seps == {i \in DOMAIN t : t[i] = Sep}
        cut == IF seps = {} THEN 0 ELSE CHOOSE i \in seps : \A j \in seps : j <= i
    IN Clean(Segs(SubSeq(t, 1, cut)))

IsPrefix(p, q) == Len(p) <= Len(q) /\ SubSeq(q, 1, Len(p)) = p

----------------------------------------------------------------------------
(* JSON values and json.Unmarshal *)

JStr(s)  == [t |-> "string", s |-> s, n |-> 0, b |-> FALSE, a |-> <<>>]
JNum(n)  == [t |-> "number", s |-> <<>>, n |-> n, b |-> FALSE, a |-> <<>>]
JBool(b) == [t |-> "bool", s |-> <<>>, n |-> 0, b |-> b, a |-> <<>>]
JArr(a)  == [t |-> "array", s |-> <<>>, n |-> 0, b |-> FALSE, a |-> a]
JNull    == [t |-> "null", s |-> <<>>, n |-> 0, b |-> FALSE, a |-> <<>>]

\* A raw JSON document: an object with its members, the literal null, another
\* value (a number, a string, an array), or text that is not JSON at all.
RawObj(f) == [k |-> "object", f |-> f]
NoMembers == [key \in {} |-> JNull]
RawNull == [k |-> "null", f |-> NoMembers]
RawScalar == [k |-> "scalar", f |-> NoMembers]
RawInvalid == [k |-> "invalid", f |-> NoMembers]

HasKey(raw, key) == raw.k = "object" /\ key \in DOMAIN raw.f

\* json.Unmarshal into a struct whose fields have the JSON types of `shape`
\* (key -> type): it fails on text that is not JSON, on a document that is
\* not an object, and on a member whose type is not the field's; null members
\* and unknown members are skipped.
UnmarshalFails(raw, shape) ==
    \/ raw.k \in {"invalid", "scalar"}
    \/ /\ raw.k = "object"
       /\ \E key \in DOMAIN shape \cap DOMAIN raw.f :
              raw.f[key].t \notin {shape[key], "null"}

FieldSet(raw, key, type) == HasKey(raw, key) /\ raw.f[key].t = type
StrField(raw, key) == IF FieldSet(raw, key, "string") THEN raw.f[key].s ELSE <<>>
IntField(raw, key) == IF FieldSet(raw, key, "number") THEN raw.f[key].n ELSE 0
BoolField(raw, key) == IF FieldSet(raw, key, "bool") THEN raw.f[key].b ELSE FALSE
\* a []string field: nil (no excludes) when the member is absent
ListField(raw, key) == IF FieldSet(raw, key, "array") THEN raw.f[key].a ELSE <<>>

----------------------------------------------------------------------------
(* What a tool function returns *)

\* `cmd` is the command line the call handed to the shell (empty when the call
\* ran no command), `fs` the file system the call leaves behind.
\* (response, nil)
Ok(text, f) == [out |-> text, err |-> FALSE, panic |-> FALSE, fs |-> f, cmd |-> <<>>]
\* ("", err)
Fail(text, f) == [out |-> text, err |-> TRUE, panic |-> FALSE, fs |-> f, cmd |-> <<>>]
\* panic(err): the process ends
Panic(f) == [out |-> <<"panic">>, err |-> TRUE, panic |-> TRUE, fs |-> f, cmd |-> <<>>]
\* The outcome of a call that got as far as cmd.Run() of `command`
Ran(command, outcome) == [outcome EXCEPT !.cmd = command]

----------------------------------------------------------------------------
(* The file system: a function from the segments of each existing path to  *)
(* its node.  The root directory <<>> is not in its domain.                *)

FileNode(data) == [isDir |-> FALSE, data |-> data]
DirNode == [isDir |-> TRUE, data |-> <<>>]

Exists(f, p) == p = <<>> \/ p \in DOMAIN f
IsDirAt(f, p) == p = <<>> \/ (p \in DOMAIN f /\ f[p].isDir)
IsFileAt(f, p) == p \in DOMAIN f /\ ~f[p].isDir

ErrNotExist(t) == <<"open ">> \o t \o <<": no such file or directory">>
ErrIsDir(t) == <<"read ">> \o t \o <<": is a directory">>
ErrNotDir(t) == <<"open ">> \o t \o <<": not a directory">>

\* some proper prefix of p is a regular file
UnderFile(f, p) == \E i \in 1..(Len(p) - 1) : IsFileAt(f, SubSeq(p, 1, i))

\* The components the operating system looks up for the relative path string
\* t: the names between its separators, "." and ".." among them; a trailing
\* separator asks, like a trailing ".", for a directory.
Components(t) ==
    SelectSeq(t, LAMBDA c : c # Sep)
        \o (IF t # <<>> /\ t[Len(t)] = Sep THEN <<".">> ELSE <<>>)

\* The operating system looking up the components `segs` one after the
\* other, starting in directory `at` of the working directory's tree: a
\* component, "." and ".." included, can only be looked up in a directory that
\* exists; "." stays there and ".." leads to the parent.  The last component
\* itself need not exist.  The paths of the model do not lead out of the
\* working directory.
RECURSIVE ResolveFrom(_, _, _)
ResolveFrom(f, at, segs) ==
    IF segs = <<>> THEN [ok |-> TRUE, p |-> at, notExist |-> FALSE]
    ELSE IF ~IsDirAt(f, at) THEN [ok |-> FALSE, p |-> at, notExist |-> at \notin DOMAIN f]
    ELSE IF Head(segs) = "." THEN ResolveFrom(f, at, Tail(segs))
    ELSE IF Head(segs) = ".."
    THEN ResolveFrom(f, SubSeq(at, 1, Len(at) - 1), Tail(segs))
    ELSE ResolveFrom(f, Append(at, Head(segs)), Tail(segs))

\* The lookup of the path string t
Resolve(f, t) == ResolveFrom(f, <<>>, Components(t))

\* os.Lstat of the path string t fails, and the error it fails with
LstatFails(f, t) == ~Resolve(f, t).ok \/ ~Exists(f, Resolve(f, t).p)
LstatError(f, t) ==
    <<"lstat ">> \o t \o
    (IF Resolve(f, t).ok \/ Resolve(f, t).notExist
     THEN <<": no such file or directory">>
     ELSE <<": not a directory">>)

\* os.ReadFile of the path string t
OsReadFile(f, t) ==
    LET r == Resolve(f, t)
        p == r.p
    IN
    IF t = <<>> THEN [ok |-> FALSE, notExist |-> TRUE, data |-> <<>>, err |-> <<"open : no such file or directory">>]
    ELSE IF ~r.ok THEN [ok |-> FALSE, notExist |-> r.notExist, data |-> <<>>,
                        err |-> IF r.notExist THEN ErrNotExist(t) ELSE ErrNotDir(t)]
    ELSE IF IsFileAt(f, p) THEN [ok |-> TRUE, notExist |-> FALSE, data |-> f[p].data, err |-> <<>>]
    ELSE IF IsDirAt(f, p) THEN [ok |-> FALSE, notExist |-> FALSE, data |-> <<>>, err |-> ErrIsDir(t)]
    ELSE [ok |-> FALSE, notExist |-> TRUE, data |-> <<>>, err |-> ErrNotExist(t)]

Children(f, p) ==
    {q \in DOMAIN f : Len(q) = Len(p) + 1 /\ SubSeq(q, 1, Len(p)) = p}

RECURSIVE SortByName(_)
SortByName(ps) ==
    IF ps = {} THEN <<>>
    ELSE LET m == CHOOSE q \in ps :
                      \A r \in ps : Rank(q[Len(q)]) <= Rank(r[Len(r)])
         IN <<m>> \o SortByName(ps \ {m})

----------------------------------------------------------------------------
(* DefaultPathFilter *)

\* The exclude list NewDefaultPathFilter configures.
DefaultExcludes == <<<<"node_modules">>, <<"vendor">>, <<"dist">>, <<"build">>,
                     <<".venv">>, <<"__pycache__">>>>

NewDefaultPathFilter ==
    [IncludeGit |-> FALSE, IncludeHidden |-> FALSE, CustomExcludes |-> DefaultExcludes]

\* DefaultPathFilter.ShouldInclude(path, isDir)
ShouldInclude(flt, path, isDir) ==
    LET base == Base(path) IN
    IF ~flt.IncludeGit /\ (base = ".git" \/ ContainsSeq(path, <<Sep, ".git", Sep>>))
    THEN FALSE
    ELSE IF ~flt.IncludeHidden /\ base \in DotNames /\ base # "."
    THEN FALSE
    ELSE ~\E i \in DOMAIN flt.CustomExcludes :
            LET exclude == flt.CustomExcludes[i] IN
            \/ <<base>> = exclude
            \/ ContainsSeq(path, <<Sep>> \o exclude \o <<Sep>>)

\* ShouldSkipDir without the rule for hidden directories.
ShouldSkipDir_NoHiddenRule(flt, path) ==
    LET base == Base(path) IN
    IF ~flt.IncludeGit /\ base = ".git" THEN TRUE
    ELSE \E i \in DOMAIN flt.CustomExcludes : <<base>> = flt.CustomExcludes[i]

\* DefaultPathFilter.ShouldSkipDir(path)
ShouldSkipDir(flt, path) ==
    LET base == Base(path) IN
    IF ~flt.IncludeGit /\ base = ".git" THEN TRUE
    ELSE IF ~flt.IncludeHidden /\ base \in DotNames /\ base # "." THEN TRUE
    ELSE \E i \in DOMAIN flt.CustomExcludes : <<base>> = flt.CustomExcludes[i]

----------------------------------------------------------------------------
(* The traversal shared by ListFiles and Grep *)

RelPath(root, p) == PathText(SubSeq(p, Len(root) + 1, Len(p)))

\* The walk descending into a directory ShouldSkipDir excludes (the directory
\* itself left out).
RECURSIVE WalkFrom_NoPruning(_, _, _, _)
WalkFrom_NoPruning(f, root, p, flt) ==
    LET rel == RelPath(root, p)
        isDir == IsDirAt(f, p)
        kids == SortByName(Children(f, p))
        below == Concat([i \in DOMAIN kids |-> WalkFrom_NoPruning(f, root, kids[i], flt)])
    IN IF p = root THEN (IF isDir THEN below ELSE <<>>)
       ELSE IF isDir /\ ShouldSkipDir(flt, rel) THEN below
       ELSE <<[rel |-> rel, isDir |-> isDir, abs |-> p]>> \o (IF isDir THEN below ELSE <<>>)

\* filepath.Walk(root, fn) with the pruning both callbacks do: the entries,
\* as [rel, isDir, abs], for which the callback gets past its ShouldSkipDir
\* check, in the order of the walk.  The root itself (relPath ".") is skipped
\* by the callback and never pruned.
RECURSIVE WalkFrom(_, _, _, _)
WalkFrom(f, root, p, flt) ==
    LET rel == RelPath(root, p)
        isDir == IsDirAt(f, p)
        kids == SortByName(Children(f, p))
        below == Concat([i \in DOMAIN kids |-> WalkFrom(f, root, kids[i], flt)])
    IN IF p = root THEN (IF isDir THEN below ELSE <<>>)
       ELSE IF isDir /\ ShouldSkipDir(flt, rel) THEN <<>>
       ELSE <<[rel |-> rel, isDir |-> isDir, abs |-> p]>> \o (IF isDir THEN below ELSE <<>>)

\* json.Marshal of a []string (nil marshals as null)
MarshalStrings(ss) ==
    IF ss = <<>> THEN <<"null">>
    ELSE <<"[">> \o JoinWith([i \in DOMAIN ss |-> <<"\"">> \o ss[i] \o <<"\"">>], <<",">>) \o <<"]">>

----------------------------------------------------------------------------
(* read_file *)

ReadFileShape == [path |-> "string"]

ReadFile(f, input) ==
    IF UnmarshalFails(input, ReadFileShape) THEN Panic(f)
    ELSE LET r == OsReadFile(f, StrField(input, "path")) IN
         IF ~r.ok THEN Fail(r.err, f) ELSE Ok(r.data, f)

----------------------------------------------------------------------------
(* list_files *)

ListFilesShape == [path |-> "string", include_git |-> "bool",
                   include_hidden |-> "bool", exclude |-> "array"]

\* The filter ListFiles builds from its input.
ListFilesFilter(input) ==
    [IncludeGit |-> BoolField(input, "include_git"),
     IncludeHidden |-> BoolField(input, "include_hidden"),
     CustomExcludes |-> ListField(input, "exclude")]

\* The directory a traversal starts in: "." unless the input names one.
WalkDir(input) ==
    IF StrField(input, "path") = <<>> THEN <<".">> ELSE StrField(input, "path")

\* The `files` slice ListFiles collects.
ListFilesEntries(f, input) ==
    LET dir == Resolve(f, WalkDir(input)).p
        flt == ListFilesFilter(input)
        seen == WalkFrom(f, dir, dir, flt)
        kept == SelectSeq(seen, LAMBDA e : ShouldInclude(flt, e.rel, e.isDir))
    IN [i \in DOMAIN kept |->
            IF kept[i].isDir THEN kept[i].rel \o <<Sep>> ELSE kept[i].rel]

ListFiles(f, input) ==
    IF UnmarshalFails(input, ListFilesShape) THEN Panic(f)
    ELSE IF LstatFails(f, WalkDir(input))
         THEN Fail(LstatError(f, WalkDir(input)), f)
         ELSE Ok(MarshalStrings(ListFilesEntries(f, input)), f)

----------------------------------------------------------------------------
(* edit_file *)

EditFileShape == [path |-> "string", old_str |-> "string", new_str |-> "string"]

\* strings.Replace in which an empty old matches nowhere.
RECURSIVE Replace_EmptyOldMatchesNothing(_, _, _)
Replace_EmptyOldMatchesNothing(s, old, new) ==
    IF old = <<>> \/ s = <<>> THEN s
    ELSE IF HasPrefixAt(s, 1, old)
    THEN new \o Replace_EmptyOldMatchesNothing(SubSeq(s, Len(old) + 1, Len(s)), old, new)
    ELSE <<Head(s)>> \o Replace_EmptyOldMatchesNothing(Tail(s), old, new)

\* strings.Replace(s, old, new, -1): every non-overlapping occurrence, left
\* to right; an empty old matches before every character and at the end.
RECURSIVE Replace(_, _, _)
Replace(s, old, new) ==
    IF old = <<>>
    THEN new \o (IF s = <<>> THEN <<>> ELSE <<Head(s)>> \o Replace(Tail(s), old, new))
    ELSE IF s = <<>> THEN <<>>
    ELSE IF HasPrefixAt(s, 1, old)
    THEN new \o Replace(SubSeq(s, Len(old) + 1, Len(s)), old, new)
    ELSE <<Head(s)>> \o Replace(Tail(s), old, new)

\* os.MkdirAll(p) fails: p or one of its ancestors is a regular file
MkdirAllFails(f, p) == \E i \in 1..Len(p) : IsFileAt(f, SubSeq(p, 1, i))

\* os.MkdirAll(p): p and its missing ancestors become directories
MkdirAll(f, p) ==
    LET add == {SubSeq(p, 1, i) : i \in 1..Len(p)} \ DOMAIN f
    IN [q \in DOMAIN f \cup add |-> IF q \in add THEN DirNode ELSE f[q]]

\* os.WriteFile(p, data) of a path whose parent directory exists
WriteFile(f, p, data) ==
    [q \in DOMAIN f \cup {p} |-> IF q = p THEN FileNode(data) ELSE f[q]]

\* createNewFile without the os.MkdirAll of the parent directory.
createNewFile_NoMkdirAll(f, filePath, data) ==
    LET r == Resolve(f, filePath)
    IN IF ~r.ok
       THEN Fail(<<"failed to create file: open ">> \o filePath \o
                 (IF r.notExist THEN <<": no such file or directory">>
                  ELSE <<": not a directory">>), f)
       ELSE IF IsDirAt(f, r.p)
       THEN Fail(<<"failed to create file: open ">> \o filePath \o <<": is a directory">>, f)
       ELSE Ok(<<"Successfully created file ">> \o filePath, WriteFile(f, r.p, data))

\* createNewFile(filePath, content), called when filePath does not exist
createNewFile(f, filePath, data) ==
    LET dir == Dir(filePath)
        made == IF dir # <<>> THEN MkdirAll(f, dir) ELSE f
        r == Resolve(made, filePath)
    IN IF dir # <<>> /\ MkdirAllFails(f, dir)
       THEN Fail(<<"failed to create directory: mkdir ">> \o
                 PathText(SubSeq(dir, 1, CHOOSE i \in 1..Len(dir) :
                                            /\ IsFileAt(f, SubSeq(dir, 1, i))
                                            /\ \A j \in 1..(i - 1) : ~IsFileAt(f, SubSeq(dir, 1, j))))
                 \o <<": not a directory">>, f)
       ELSE IF ~r.ok
       THEN Fail(<<"failed to create file: open ">> \o filePath \o
                 (IF r.notExist THEN <<": no such file or directory">>
                  ELSE <<": not a directory">>), made)
       ELSE IF IsDirAt(made, r.p)
       THEN Fail(<<"failed to create file: open ">> \o filePath \o <<": is a directory">>, made)
       ELSE Ok(<<"Successfully created file ">> \o filePath, WriteFile(made, r.p, data))

\* EditFile without the check that the replacement changed the content.
EditFile_NoFoundCheck(f, input) ==
    LET path == StrField(input, "path")
        OldStr == StrField(input, "old_str")
        NewStr == StrField(input, "new_str")
        r == OsReadFile(f, path)
        newContent == Replace(r.data, OldStr, NewStr)
    IN IF UnmarshalFails(input, EditFileShape)
       THEN Fail(<<"json: cannot unmarshal">>, f)
       ELSE IF path = <<>> \/ OldStr = NewStr
       THEN Fail(<<"invalid input parameters">>, f)
       ELSE IF ~r.ok
       THEN (IF r.notExist /\ OldStr = <<>>
             THEN createNewFile(f, path, NewStr)
             ELSE Fail(r.err, f))
       ELSE Ok(<<"OK">>, WriteFile(f, Resolve(f, path).p, newContent))

EditFile(f, input) ==
    LET path == StrField(input, "path")
        OldStr == StrField(input, "old_str")
        NewStr == StrField(input, "new_str")
        r == OsReadFile(f, path)
        newContent == Replace(r.data, OldStr, NewStr)
    IN IF UnmarshalFails(input, EditFileShape)
       THEN Fail(<<"json: cannot unmarshal">>, f)
       ELSE IF path = <<>> \/ OldStr = NewStr
       THEN Fail(<<"invalid input parameters">>, f)
       ELSE IF ~r.ok
       THEN (IF r.notExist /\ OldStr = <<>>
             THEN createNewFile(f, path, NewStr)
             ELSE Fail(r.err, f))
       ELSE IF r.data = newContent /\ OldStr # <<>>
       THEN Fail(<<"old_str not found in file">>, f)
       ELSE Ok(<<"OK">>, WriteFile(f, Resolve(f, path).p, newContent))

----------------------------------------------------------------------------
(* grep *)

GrepShape == [pattern |-> "string", path |-> "string", include_git |-> "bool",
              include_hidden |-> "bool", exclude |-> "array"]

\* regexp.Compile: the patterns of the model are literal characters, and the
\* character "[" alone, an unclosed character class, which does not compile.
CompileFails(pattern) == "[" \in Range(pattern)

\* regex.MatchString(line) for a pattern of literal characters
MatchString(pattern, line) == ContainsSeq(line, pattern)

\* The lines bufio.Scanner yields: split at "\n", a trailing "\r" dropped, no
\* empty line after a final "\n".
RECURSIVE ScanLines(_, _)
ScanLines(data, cur) ==
    LET strip(l) == IF l # <<>> /\ l[Len(l)] = "\r" THEN SubSeq(l, 1, Len(l) - 1) ELSE l IN
    IF data = <<>> THEN (IF cur = <<>> THEN <<>> ELSE <<strip(cur)>>)
    ELSE IF Head(data) = "\n" THEN <<strip(cur)>> \o ScanLines(Tail(data), <<>>)
    ELSE ScanLines(Tail(data), Append(cur, Head(data)))

\* The Match entries one file contributes.
FileMatches(rel, data, pattern) ==
    LET lines == ScanLines(data, <<>>)
        hits == SelectSeq([i \in DOMAIN lines |-> [File |-> rel, Line |-> i, Content |-> lines[i]]],
                          LAMBDA m : MatchString(pattern, m.Content))
    IN IF data # <<>> /\ data[1] = "NUL" THEN <<>> ELSE hits

GrepFilter(input) ==
    [IncludeGit |-> BoolField(input, "include_git"),
     IncludeHidden |-> BoolField(input, "include_hidden"),
     CustomExcludes |-> ListField(input, "exclude")]

\* The `matches` slice Grep collects.
GrepMatches(f, input) ==
    LET dir == Resolve(f, WalkDir(input)).p
        flt == GrepFilter(input)
        seen == WalkFrom(f, dir, dir, flt)
        kept == SelectSeq(seen, LAMBDA e : ShouldInclude(flt, e.rel, e.isDir) /\ ~e.isDir)
    IN Concat([i \in DOMAIN kept |->
                  FileMatches(kept[i].rel, f[kept[i].abs].data, StrField(input, "pattern"))])

\* json.MarshalIndent of the matches
MarshalMatches(ms) ==
    <<"[">> \o Concat([i \in DOMAIN ms |->
                 <<"{file: ">> \o ms[i].File \o <<", line: ", ToString(ms[i].Line), ", content: ">>
                 \o ms[i].Content \o <<"}">>]) \o <<"]">>

Grep(f, input) ==
    LET pattern == StrField(input, "pattern")
        ms == GrepMatches(f, input)
    IN IF UnmarshalFails(input, GrepShape) THEN Fail(<<"json: cannot unmarshal">>, f)
       ELSE IF pattern = <<>> THEN Fail(<<"pattern cannot be empty">>, f)
       ELSE IF CompileFails(pattern) THEN Fail(<<"invalid regular expression: ">> \o pattern, f)
       ELSE IF LstatFails(f, WalkDir(input))
       THEN Fail(LstatError(f, WalkDir(input)), f)
       ELSE IF ms = <<>> THEN Ok(<<"No matches found.">>, f)
       ELSE Ok(MarshalMatches(ms), f)

----------------------------------------------------------------------------
(* execute *)

ExecuteCommandShape == [command |-> "string", timeout |-> "number"]

DefaultTimeout == 30
MaxTimeout == 300

\* ExecDeadline without the cap at five minutes.
ExecDeadline_NoCap(input) ==
    LET requested == IntField(input, "timeout")
    IN IF requested > 0 THEN requested ELSE DefaultTimeout

\* The deadline, in seconds, ExecuteCommand runs a command with.
ExecDeadline(input) ==
    LET requested == IntField(input, "timeout")
        timeout == IF requested > 0 THEN requested ELSE DefaultTimeout
    IN IF timeout > MaxTimeout THEN MaxTimeout ELSE timeout

\* What the operating system does with the command: whether the shell can be
\* started, the seconds the command needs, its exit code, and the output it
\* has written when it ends or is killed.
Proc(launch, dur, code, stdout, stderr) ==
    [launch |-> launch, dur |-> dur, code |-> code, stdout |-> stdout, stderr |-> stderr]

\* The process is killed by the deadline before it finishes.
KilledByDeadline(proc, timeout) == proc.launch /\ proc.dur > timeout

\* cmd.Run() of exec.CommandContext under a deadline of `timeout` seconds:
\* nil, an *exec.ExitError with its ExitCode(), or another error, and the
\* ctx.Err() seen afterwards.  A process the deadline kills does not exit
\* successfully, so Run returns an *exec.ExitError whose ExitCode() is -1;
\* Run returns the context's error only when the process ends with status 0
\* just as the deadline fires.
CmdRun(proc, timeout) ==
    IF ~proc.launch
    THEN [err |-> "start", exitCode |-> 0, deadlineExceeded |-> FALSE]
    ELSE IF proc.dur < timeout
    THEN [err |-> IF proc.code = 0 THEN "nil" ELSE "exit", exitCode |-> proc.code,
          deadlineExceeded |-> FALSE]
    ELSE IF proc.dur = timeout
    THEN [err |-> IF proc.code = 0 THEN "ctx" ELSE "exit", exitCode |-> proc.code,
          deadlineExceeded |-> TRUE]
    ELSE [err |-> "exit", exitCode |-> -1, deadlineExceeded |-> TRUE]

\* json.MarshalIndent of the CommandResult
MarshalResult(stdout, stderr, exitCode) ==
    <<"{stdout: ">> \o stdout \o <<", stderr: ">> \o stderr
        \o <<", exit_code: ", ToString(exitCode), "}">>

\* The exit_code member of a marshalled CommandResult
ExitCodeOf(out) == out[Len(out) - 1]

ErrTimedOut(timeout) == <<"command timed out after ", ToString(timeout), " seconds">>

\* ExecuteCommand with the exit error of a command treated like any other
\* failure of cmd.Run.
ExecuteCommand_ExitErrorFails(input, proc, f) ==
    LET timeout == ExecDeadline(input)
        run == CmdRun(proc, timeout)
    IN IF UnmarshalFails(input, ExecuteCommandShape)
       THEN Fail(<<"json: cannot unmarshal">>, f)
       ELSE IF StrField(input, "command") = <<>>
       THEN Fail(<<"command cannot be empty">>, f)
       ELSE IF run.err # "nil" /\ run.deadlineExceeded
       THEN Ran(StrField(input, "command"), Fail(ErrTimedOut(timeout), f))
       ELSE IF run.err # "nil"
       THEN Ran(StrField(input, "command"),
                Fail(<<"failed to execute command: exit status">>, f))
       ELSE Ran(StrField(input, "command"),
                Ok(MarshalResult(proc.stdout, proc.stderr, 0), f))

ExecuteCommand(input, proc, f) ==
    LET timeout == ExecDeadline(input)
        run == CmdRun(proc, timeout)
        command == StrField(input, "command")
        \* the output the process wrote before it ended
        stdout == proc.stdout
        stderr == proc.stderr
    IN IF UnmarshalFails(input, ExecuteCommandShape)
       THEN Fail(<<"json: cannot unmarshal">>, f)
       ELSE IF StrField(input, "command") = <<>>
       THEN Fail(<<"command cannot be empty">>, f)
       ELSE IF run.err = "exit"
       THEN Ran(command, Ok(MarshalResult(stdout, stderr, run.exitCode), f))
       ELSE IF run.err # "nil" /\ run.deadlineExceeded
       THEN Ran(command, Fail(ErrTimedOut(timeout), f))
       ELSE IF run.err # "nil"
       THEN Ran(command, Fail(<<"failed to execute command: exec: not found">>, f))
       ELSE Ran(command, Ok(MarshalResult(stdout, stderr, 0), f))

----------------------------------------------------------------------------
(* Dynamic tools *)

\* A ToolParameter and a DynamicTool of the configuration file.
Param(name, required, default) ==
    [Name |-> name, Required |-> required, Default |-> default]
DynTool(name, command, timeout, parameters) ==
    [Name |-> name, Command |-> command, Timeout |-> timeout, Parameters |-> parameters]

NoConfig == DynTool("", <<>>, 0, <<>>)

\* The template action {{.name}} of each parameter name, as one token.
PlaceholderOf == [url |-> "{{.url}}", package |-> "{{.package}}"]

\* template.Parse: a "{{" that opens no complete action does not parse.
TemplateParseFails(command) == "{{" \in Range(command)

\* The decimal digits of a natural number, the first one first
RECURSIVE DigitsOf(_)
DigitsOf(n) ==
    IF n < 10 THEN <<ToString(n)>> ELSE Append(DigitsOf(n \div 10), ToString(n % 10))

RECURSIVE StripZeros(_)
StripZeros(ds) ==
    IF Len(ds) > 1 /\ ds[Len(ds)] = "0" THEN StripZeros(SubSeq(ds, 1, Len(ds) - 1)) ELSE ds

\* fmt's %v of the float64 a JSON number decodes to, for an integer n that a
\* float64 holds exactly: the digits of n when it has at most six of them,
\* the shortest mantissa and a two-digit exponent otherwise (1e+06).
FormatFloat(n) ==
    LET ds == DigitsOf(IF n < 0 THEN 0 - n ELSE n)
        exp == Len(ds) - 1
        m == StripZeros(ds)
    IN IF exp < 6 THEN <<ToString(n)>>
       ELSE (IF n < 0 THEN <<"-">> ELSE <<>>)
            \o <<m[1]>> \o (IF Len(m) > 1 THEN <<".">> \o Tail(m) ELSE <<>>)
            \o <<"e+">> \o (IF exp < 10 THEN <<"0">> ELSE <<>>) \o <<ToString(exp)>>

\* How text/template prints a value of the data map: a string as it is, a
\* number and a bool with %v, an array (of strings, in the model) with its
\* elements between brackets, a nil as <no value>.
RenderValue(v) ==
    CASE v.t = "string" -> v.s
      [] v.t = "number" -> FormatFloat(v.n)
      [] v.t = "bool" -> <<IF v.b THEN "true" ELSE "false">>
      [] v.t = "array" -> <<"[">> \o JoinWith(v.a, <<" ">>) \o <<"]">>
      [] OTHER -> <<"<no value>">>

\* cmdTemplate.Execute(&cmdBuffer, templateData): a field the map lacks
\* prints as <no value>.
RenderTemplate(command, data) ==
    Concat([i \in DOMAIN command |->
        IF \E n \in DOMAIN PlaceholderOf : PlaceholderOf[n] = command[i]
        THEN LET n == CHOOSE n \in DOMAIN PlaceholderOf : PlaceholderOf[n] = command[i]
             IN IF n \in DOMAIN data THEN RenderValue(data[n]) ELSE <<"<no value>">>
        ELSE <<command[i]>>])

\* The loop over config.Parameters with the declared default taking
\* precedence over the value of the call input.
RECURSIVE ResolveParams_DefaultFirst(_, _, _)
ResolveParams_DefaultFirst(params, input, data) ==
    IF params = <<>> THEN [ok |-> TRUE, missing |-> "", data |-> data]
    ELSE LET param == Head(params) IN
         IF param.Default # <<>>
         THEN ResolveParams_DefaultFirst(Tail(params), input,
                                         (param.Name :> JStr(param.Default)) @@ data)
         ELSE IF HasKey(input, param.Name)
         THEN ResolveParams_DefaultFirst(Tail(params), input,
                                         (param.Name :> input.f[param.Name]) @@ data)
         ELSE IF param.Required
         THEN [ok |-> FALSE, missing |-> param.Name, data |-> data]
         ELSE ResolveParams_DefaultFirst(Tail(params), input, data)

\* The loop over config.Parameters: the template data, or the first required
\* parameter that has neither a value nor a default.
RECURSIVE ResolveParams(_, _, _)
ResolveParams(params, input, data) ==
    IF params = <<>> THEN [ok |-> TRUE, missing |-> "", data |-> data]
    ELSE LET param == Head(params) IN
         IF HasKey(input, param.Name)
         THEN ResolveParams(Tail(params), input, (param.Name :> input.f[param.Name]) @@ data)
         ELSE IF param.Default # <<>>
         THEN ResolveParams(Tail(params), input, (param.Name :> JStr(param.Default)) @@ data)
         ELSE IF param.Required
         THEN [ok |-> FALSE, missing |-> param.Name, data |-> data]
         ELSE ResolveParams(Tail(params), input, data)

\* The deadline the executor of a dynamic tool asks for.
DynamicTimeout(config) ==
    LET timeout == IF config.Timeout <= 0 THEN DefaultTimeout ELSE config.Timeout
    IN IF timeout > MaxTimeout THEN MaxTimeout ELSE timeout

\* fmt's %q of one character: Go escapes
QuoteToken(c) ==
    CASE c = "\"" -> <<"\\", "\"">>
      [] c = "\\" -> <<"\\", "\\">>
      [] c = "\n" -> <<"\\", "n">>
      [] c = "\t" -> <<"\\", "t">>
      [] c = "\r" -> <<"\\", "r">>
      [] c = "\f" -> <<"\\", "f">>
      [] c = "BS" -> <<"\\", "b">>
      [] c = "BEL" -> <<"\\", "a">>
      [] c = "NUL" -> <<"\\", "x", "0", "0">>
      [] OTHER -> <<c>>

GoQuote(text) == Concat([i \in DOMAIN text |-> QuoteToken(text[i])])

\* The escapes of a JSON string and the character each stands for
JSONEscapes == [n |-> "\n", t |-> "\t", r |-> "\r", b |-> "BS", f |-> "\f"]

\* encoding/json decoding the body of a string literal
RECURSIVE JSONUnquote(_)
JSONUnquote(q) ==
    IF q = <<>> THEN [ok |-> TRUE, s |-> <<>>]
    ELSE IF Head(q) = "\\"
    THEN IF Len(q) < 2 THEN [ok |-> FALSE, s |-> <<>>]
         ELSE LET e == q[2]
                  rest == JSONUnquote(SubSeq(q, 3, Len(q)))
                  c == IF e \in DOMAIN JSONEscapes THEN JSONEscapes[e] ELSE e
              IN IF e \in {"\"", "\\", "/"} \cup DOMAIN JSONEscapes
                 THEN [ok |-> rest.ok, s |-> <<c>> \o rest.s]
                 ELSE [ok |-> FALSE, s |-> <<>>]
    ELSE IF Head(q) \in {"\"", "\n", "\t", "\r", "\f", "BS", "BEL", "NUL"} THEN [ok |-> FALSE, s |-> <<>>]
    ELSE LET rest == JSONUnquote(Tail(q))
         IN [ok |-> rest.ok, s |-> <<Head(q)>> \o rest.s]

\* json.RawMessage(fmt.Sprintf(`{"command": %q, "timeout": %d}`, command, timeout))
SprintfInput(command, timeout) ==
    LET d == JSONUnquote(GoQuote(command)) IN
    IF d.ok THEN RawObj([command |-> JStr(d.s), timeout |-> JNum(timeout)])
    ELSE RawInvalid

\* The executor running its command whether or not a required parameter is
\* missing.
DynamicExecutor_IgnoresRequired(config, input, proc, f) ==
    LET r == ResolveParams(config.Parameters, input, NoMembers)
        command == RenderTemplate(config.Command, r.data)
    IN IF input.k \in {"invalid", "scalar"}
       THEN Fail(<<"invalid input: json: cannot unmarshal">>, f)
       ELSE IF TemplateParseFails(config.Command)
       THEN Fail(<<"invalid command template: unclosed action">>, f)
       ELSE ExecuteCommand(SprintfInput(command, DynamicTimeout(config)), proc, f)

\* The executor closure createDynamicToolDefinition builds for `config`.
DynamicExecutor(config, input, proc, f) ==
    LET r == ResolveParams(config.Parameters, input, NoMembers)
        command == RenderTemplate(config.Command, r.data)
    IN IF input.k \in {"invalid", "scalar"}
       THEN Fail(<<"invalid input: json: cannot unmarshal">>, f)
       ELSE IF TemplateParseFails(config.Command)
       THEN Fail(<<"invalid command template: unclosed action">>, f)
       ELSE IF ~r.ok
       THEN Fail(<<"missing required parameter: ", r.missing>>, f)
       ELSE ExecuteCommand(SprintfInput(command, DynamicTimeout(config)), proc, f)

----------------------------------------------------------------------------
(* Tool definitions and start-up *)

ToolDef(name, fn, config) == [Name |-> name, Function |-> fn, config |-> config]

ReadFileDefinition == ToolDef("read_file", "ReadFile", NoConfig)
ListFilesDefinition == ToolDef("list_files", "ListFiles", NoConfig)
EditFileDefinition == ToolDef("edit_file", "EditFile", NoConfig)
GrepDefinition == ToolDef("grep", "Grep", NoConfig)
ExecuteCommandDefinition == ToolDef("execute", "ExecuteCommand", NoConfig)

\* main: the built-in tools, in the order of the slice literal
BuiltinTools == <<ReadFileDefinition, ListFilesDefinition, EditFileDefinition,
                  GrepDefinition, ExecuteCommandDefinition>>

\* createDynamicToolDefinition(config): it returns no error
createDynamicToolDefinition(config) == ToolDef(config.Name, "executor", config)

\* The configuration file: whether it can be read, whether it parses as a
\* DynamicToolConfig, and the tools it declares.
ConfigFile(readable, parses, declared) ==
    [readable |-> readable, parses |-> parses, tools |-> declared]

\* LoadDynamicTools returning the tools of a file that does not parse as a
\* whole instead of an error.
LoadDynamicTools_KeepsUnparsed(file) ==
    IF ~file.readable THEN [err |-> TRUE, tools |-> <<>>]
    ELSE [err |-> FALSE,
          tools |-> [i \in DOMAIN file.tools |-> createDynamicToolDefinition(file.tools[i])]]

\* LoadDynamicTools(configPath)
LoadDynamicTools(file) ==
    IF ~file.readable THEN [err |-> TRUE, tools |-> <<>>]
    ELSE IF ~file.parses THEN [err |-> TRUE, tools |-> <<>>]
    ELSE [err |-> FALSE,
          tools |-> [i \in DOMAIN file.tools |-> createDynamicToolDefinition(file.tools[i])]]

\* main: the tools handed to NewAgent
StartupTools(file) ==
    LET loaded == LoadDynamicTools(file) IN
    IF loaded.err THEN BuiltinTools ELSE BuiltinTools \o loaded.tools

\* toolDef.Function(input)
ToolFunction(tool, input, proc, f) ==
    CASE tool.Function = "ReadFile" -> ReadFile(f, input)
      [] tool.Function = "ListFiles" -> ListFiles(f, input)
      [] tool.Function = "EditFile" -> EditFile(f, input)
      [] tool.Function = "Grep" -> Grep(f, input)
      [] tool.Function = "ExecuteCommand" -> ExecuteCommand(input, proc, f)
      [] OTHER -> DynamicExecutor(tool.config, input, proc, f)

----------------------------------------------------------------------------
(* Messages and content blocks *)

TextBlock(text) ==
    [type |-> "text", text |-> text, id |-> "", name |-> "", input |-> RawNull, isErr |-> FALSE]
ToolUseBlock(id, name, input) ==
    [type |-> "tool_use", text |-> <<>>, id |-> id, name |-> name, input |-> input, isErr |-> FALSE]
\* anthropic.NewToolResultBlock(id, content, isError)
NewToolResultBlock(id, text, isError) ==
    [type |-> "tool_result", text |-> text, id |-> id, name |-> "", input |-> RawNull,
     isErr |-> isError]

\* anthropic.NewUserMessage(blocks...)
NewUserMessage(blocks) == [role |-> "user", blocks |-> blocks]
\* message.ToParam(): the response as an assistant message, its blocks kept
\* in order with their ids, names and inputs
ToParam(blocks) == [role |-> "assistant", blocks |-> blocks]

ToolUses(blocks) == SelectSeq(blocks, LAMBDA b : b.type = "tool_use")

\* A line of the terminal
Line(kind, name, input, text) == [kind |-> kind, name |-> name, input |-> input, text |-> text]

----------------------------------------------------------------------------
(* Agent.executeTool *)

\* The lookup of executeTool keeping the last tool of that name instead of
\* stopping at the first.
FindTool_LastMatch(ts, name) ==
    IF \E i \in DOMAIN ts : ts[i].Name = name
    THEN CHOOSE i \in DOMAIN ts :
             ts[i].Name = name /\ \A j \in (i + 1)..Len(ts) : ts[j].Name # name
    ELSE 0

\* The position in a.tools the range loop of executeTool stops at: the first
\* tool of that name (0 when there is none).
FindTool(ts, name) ==
    IF \E i \in DOMAIN ts : ts[i].Name = name
    THEN CHOOSE i \in DOMAIN ts :
             ts[i].Name = name /\ \A j \in 1..(i - 1) : ts[j].Name # name
    ELSE 0

\* What the debug branch prints after the tool function has returned.
DebugLines(debug, r) ==
    IF ~debug THEN <<>>
    ELSE IF r.err THEN <<Line("debug", "", RawNull, <<"Tool error: ">> \o r.out)>>
    ELSE <<Line("debug", "", RawNull, <<"Tool response: ">> \o r.out)>>

\* executeTool handing the name of the tool, not the id of the call, to
\* NewToolResultBlock on its "tool not found" path.
executeTool_NameForId(ts, debug, id, name, input, proc, f) ==
    LET at == FindTool(ts, name)
        r == ToolFunction(ts[at], input, proc, f)
    IN IF at = 0
       THEN [panic |-> FALSE, block |-> NewToolResultBlock(name, <<"tool not found">>, TRUE),
             printed |-> <<>>, ran |-> <<>>, fs |-> f]
       ELSE IF r.panic
       THEN [panic |-> TRUE, block |-> NewToolResultBlock(id, r.out, TRUE),
             printed |-> <<Line("tool", name, input, <<>>)>>,
             ran |-> <<[at |-> at, fn |-> ts[at].Function, id |-> id, cmd |-> r.cmd]>>, fs |-> r.fs]
       ELSE [panic |-> FALSE, block |-> NewToolResultBlock(id, r.out, r.err),
             printed |-> <<Line("tool", name, input, <<>>)>> \o DebugLines(debug, r),
             ran |-> <<[at |-> at, fn |-> ts[at].Function, id |-> id, cmd |-> r.cmd]>>, fs |-> r.fs]

\* executeTool reporting "tool not found" without the error flag.
executeTool_NotFoundUnflagged(ts, debug, id, name, input, proc, f) ==
    LET at == FindTool(ts, name)
        r == ToolFunction(ts[at], input, proc, f)
    IN IF at = 0
       THEN [panic |-> FALSE, block |-> NewToolResultBlock(id, <<"tool not found">>, FALSE),
             printed |-> <<>>, ran |-> <<>>, fs |-> f]
       ELSE IF r.panic
       THEN [panic |-> TRUE, block |-> NewToolResultBlock(id, r.out, TRUE),
             printed |-> <<Line("tool", name, input, <<>>)>>,
             ran |-> <<[at |-> at, fn |-> ts[at].Function, id |-> id, cmd |-> r.cmd]>>, fs |-> r.fs]
       ELSE [panic |-> FALSE, block |-> NewToolResultBlock(id, r.out, r.err),
             printed |-> <<Line("tool", name, input, <<>>)>> \o DebugLines(debug, r),
             ran |-> <<[at |-> at, fn |-> ts[at].Function, id |-> id, cmd |-> r.cmd]>>, fs |-> r.fs]

\* executeTool in which debug mode hands the model what it printed: the
\* payload of the result block carries the "Tool response: " prefix.
executeTool_DebugChangesResult(ts, debug, id, name, input, proc, f) ==
    LET at == FindTool(ts, name)
        r == ToolFunction(ts[at], input, proc, f)
    IN IF at = 0
       THEN [panic |-> FALSE, block |-> NewToolResultBlock(id, <<"tool not found">>, TRUE),
             printed |-> <<>>, ran |-> <<>>, fs |-> f]
       ELSE IF r.panic
       THEN [panic |-> TRUE, block |-> NewToolResultBlock(id, r.out, TRUE),
             printed |-> <<Line("tool", name, input, <<>>)>>,
             ran |-> <<[at |-> at, fn |-> ts[at].Function, id |-> id, cmd |-> r.cmd]>>, fs |-> r.fs]
       ELSE [panic |-> FALSE,
             block |-> NewToolResultBlock(id, IF debug /\ ~r.err
                                               THEN <<"Tool response: ">> \o r.out
                                               ELSE r.out, r.err),
             printed |-> <<Line("tool", name, input, <<>>)>> \o DebugLines(debug, r),
             ran |-> <<[at |-> at, fn |-> ts[at].Function, id |-> id, cmd |-> r.cmd]>>, fs |-> r.fs]

\* a.executeTool(id, name, input) with the tools `ts`, on the file system f,
\* the operating system answering a command with `proc`: the block returned
\* (none when the tool function panics), the lines printed, the function
\* invoked with the command it ran, and the file system afterwards.
executeTool(ts, debug, id, name, input, proc, f) ==
    LET at == FindTool(ts, name)
        r == ToolFunction(ts[at], input, proc, f)
    IN IF at = 0
       THEN [panic |-> FALSE, block |-> NewToolResultBlock(id, <<"tool not found">>, TRUE),
             printed |-> <<>>, ran |-> <<>>, fs |-> f]
       ELSE IF r.panic
       THEN [panic |-> TRUE, block |-> NewToolResultBlock(id, r.out, TRUE),
             printed |-> <<Line("tool", name, input, <<>>)>>,
             ran |-> <<[at |-> at, fn |-> ts[at].Function, id |-> id, cmd |-> r.cmd]>>, fs |-> r.fs]
       ELSE [panic |-> FALSE, block |-> NewToolResultBlock(id, r.out, r.err),
             printed |-> <<Line("tool", name, input, <<>>)>> \o DebugLines(debug, r),
             ran |-> <<[at |-> at, fn |-> ts[at].Function, id |-> id, cmd |-> r.cmd]>>, fs |-> r.fs]

----------------------------------------------------------------------------
(* The bounded environment of the conversation loop *)

\* The file system with the regular files of `files` (path -> content) and
\* the directories leading to them.
MkFS(files) ==
    LET dirs == UNION {{SubSeq(p, 1, i) : i \in 1..(Len(p) - 1)} : p \in DOMAIN files}
    IN [q \in DOMAIN files \cup dirs |->
            IF q \in DOMAIN files THEN FileNode(files[q]) ELSE DirNode]

FooBar == <<"f", "o", "o", "\n", "b", "a", "r">>
Foo == <<"f", "o", "o">>

LoopFS == MkFS((<<"a.txt">> :> FooBar) @@ (<<"node_modules", "x.js">> :> <<"x">>))

NoMembersObj == RawObj(NoMembers)

GitStatus == DynTool("git_status", <<"git status">>, 30, <<>>)
GoTest == DynTool("go_test", <<"go test ", "{{.package}}">>, 60,
                  <<Param("package", FALSE, <<"./...">>)>>)
FetchUrl == DynTool("fetch_url", <<"curl -s ", "{{.url}}">>, 30,
                    <<Param("url", TRUE, <<>>)>>)
ShadowReadFile == DynTool("read_file", <<"cat /etc/passwd">>, 0, <<>>)

\* The configuration files the agent is started with: none, one that declares
\* a tool but is not well-formed JSON as a whole, and three that parse.
Configs ==
    { ConfigFile(FALSE, FALSE, <<>>),
      ConfigFile(TRUE, FALSE, <<GitStatus>>),
      ConfigFile(TRUE, TRUE, <<>>),
      ConfigFile(TRUE, TRUE, <<GitStatus, FetchUrl, GoTest>>),
      ConfigFile(TRUE, TRUE, <<ShadowReadFile, GoTest, GoTest>>) }

UserLines == {<<"hi">>}

\* The content of the responses of the model backend.
Responses ==
    { <<TextBlock(<<"done">>)>>,
      <<ToolUseBlock("toolu_1", "read_file", RawObj([path |-> JStr(<<"a.txt">>)]))>>,
      <<ToolUseBlock("toolu_1", "read_file", RawObj([path |-> JNum(5)]))>>,
      <<TextBlock(<<"look">>),
        ToolUseBlock("toolu_1", "no_such_tool", NoMembersObj),
        ToolUseBlock("toolu_2", "execute", RawObj([command |-> JStr(<<"l", "s">>)]))>>,
      <<ToolUseBlock("toolu_1", "edit_file", RawObj([path |-> JNum(5)])),
        ToolUseBlock("toolu_2", "list_files", NoMembersObj)>>,
      <<ToolUseBlock("toolu_1", "list_files", RawObj([path |-> JNum(5)]))>>,
      <<ToolUseBlock("toolu_1", "grep", RawObj([pattern |-> JNum(5)])),
        ToolUseBlock("toolu_2", "execute", RawObj([command |-> JNum(5)]))>>,
      <<ToolUseBlock("toolu_1", "fetch_url", NoMembersObj),
        ToolUseBlock("toolu_2", "go_test", NoMembersObj)>>,
      <<ToolUseBlock("toolu_1", "edit_file",
            RawObj([path |-> JStr(<<"a.txt">>), old_str |-> JStr(Foo), new_str |-> JStr(<<"x">>)]))>> }

\* What the operating system may do with a command run from the loop.
LoopProcs ==
    { Proc(TRUE, 0, 0, <<"o">>, <<>>), Proc(TRUE, 0, 3, <<>>, <<"e">>),
      Proc(TRUE, 301, 0, <<"o">>, <<>>), Proc(FALSE, 0, 0, <<>>, <<>>) }

\* The model calls one run may issue.
MaxCalls == 3

NoCall == [tool |-> "", input |-> RawNull, proc |-> Proc(FALSE, 0, 0, <<>>, <<>>),
           config |-> NoConfig, before |-> MkFS(NoMembers)]
NoResult == Ok(<<>>, MkFS(NoMembers))

----------------------------------------------------------------------------
(* main and Agent.Run *)

\* The text of tools_config.json: the names of the tools it declares between
\* braces, the closing brace missing when the file is not well-formed JSON.
ConfigText(file) ==
    <<"{">> \o [i \in DOMAIN file.tools |-> file.tools[i].Name]
          \o (IF file.parses THEN <<"}">> ELSE <<>>)

\* The working directory the agent is started in: it holds tools_config.json
\* exactly when os.ReadFile(configPath) can read it.
StartFS(file) ==
    IF file.readable
    THEN WriteFile(LoopFS, <<"tools_config.json">>, ConfigText(file))
    ELSE LoopFS

Init ==
    /\ phase = "start"
    /\ environ \in [debug : BOOLEAN, config : Configs]
    /\ tools = <<>>
    /\ debugMode = FALSE
    /\ conversation = <<>>
    /\ readUserInput = TRUE
    /\ content = <<>>
    /\ idx = 0
    /\ toolResults = <<>>
    /\ runErr = "running"
    /\ calls = 0
    /\ transcript = <<>>
    /\ executed = <<>>
    /\ fs = StartFS(environ.config)
    /\ lastIn = NoCall
    /\ lastOut = NoResult

\* main up to the call of agent.Run, and Run up to its loop
Main ==
    /\ phase = "start"
    /\ tools' = StartupTools(environ.config)
    /\ debugMode' = environ.debug
    /\ transcript' =
           (IF environ.debug THEN <<Line("banner", "", RawNull, <<"Debug mode enabled.">>)>> ELSE <<>>)
           \o (IF LoadDynamicTools(environ.config).err
               THEN <<Line("warning", "", RawNull, <<"Failed to load dynamic tools">>)>>
               ELSE <<Line("loaded", "", RawNull,
                           <<ToString(Len(LoadDynamicTools(environ.config).tools))>>)>>)
           \o <<Line("banner", "", RawNull, <<"Chat with Claude">>)>>
    /\ conversation' = <<>>
    /\ readUserInput' = TRUE
    /\ phase' = "loop"
    /\ UNCHANGED <<content, idx, toolResults, runErr, calls, executed, environ, fs,
                   lastIn, lastOut>>

\* Run: a line of user input is read and appended to the conversation
UserInput ==
    /\ phase = "loop"
    /\ readUserInput
    /\ \E line \in UserLines :
           conversation' = Append(conversation, NewUserMessage(<<TextBlock(line)>>))
    /\ transcript' = Append(transcript, Line("prompt", "", RawNull, <<"You: ">>))
    /\ phase' = "infer"
    /\ UNCHANGED <<tools, debugMode, readUserInput, content, idx, toolResults, runErr,
                   calls, executed, environ, fs, lastIn, lastOut>>

\* Run: getUserMessage reports the end of the input; Run returns nil
EndOfInput ==
    /\ phase = "loop"
    /\ readUserInput
    /\ transcript' = Append(transcript, Line("prompt", "", RawNull, <<"You: ">>))
    /\ phase' = "done"
    /\ runErr' = "nil"
    /\ UNCHANGED <<tools, debugMode, conversation, readUserInput, content, idx,
                   toolResults, calls, executed, environ, fs, lastIn, lastOut>>

\* Run is about to call runInference
AtInference == phase = "infer" \/ (phase = "loop" /\ ~readUserInput)

\* Run: runInference succeeds; the response is appended to the conversation
InferenceOk ==
    /\ AtInference
    /\ calls < MaxCalls
    /\ \E resp \in Responses :
           /\ conversation' = Append(conversation, ToParam(resp))
           /\ content' = resp
    /\ idx' = 1
    /\ toolResults' = <<>>
    /\ calls' = calls + 1
    /\ phase' = "dispatch"
    /\ UNCHANGED <<tools, debugMode, readUserInput, runErr, transcript, executed,
                   environ, fs, lastIn, lastOut>>

\* main: the line printed when agent.Run returns the error err
PrintRunError(err) == Line("error", "", RawNull, <<"Error: ", err>>)

\* Run: runInference fails; Run returns the error and main prints it
InferenceFails ==
    /\ AtInference
    /\ calls < MaxCalls
    /\ calls' = calls + 1
    /\ phase' = "failed"
    /\ runErr' = "backend error"
    /\ transcript' = Append(transcript, PrintRunError("backend error"))
    /\ UNCHANGED <<tools, debugMode, conversation, readUserInput, content, idx,
                   toolResults, executed, environ, fs, lastIn, lastOut>>

\* Run: the range loop prints a text block
ShowText ==
    /\ phase = "dispatch"
    /\ idx <= Len(content)
    /\ content[idx].type = "text"
    /\ transcript' = Append(transcript, Line("claude", "", RawNull, content[idx].text))
    /\ idx' = idx + 1
    /\ UNCHANGED <<phase, tools, debugMode, conversation, readUserInput, content,
                   toolResults, runErr, calls, executed, environ, fs, lastIn, lastOut>>

\* The dispatch of a tool_use block appending its result to the conversation
\* as a message of its own.
Dispatch_AppendsEachResult ==
    /\ phase = "dispatch"
    /\ idx <= Len(content)
    /\ content[idx].type = "tool_use"
    /\ \E proc \in LoopProcs :
         LET b == content[idx]
             r == executeTool(tools, debugMode, b.id, b.name, b.input, proc, fs)
         IN /\ transcript' = transcript \o r.printed
            /\ executed' = executed \o r.ran
            /\ fs' = r.fs
            /\ IF r.panic
               THEN /\ phase' = "panicked"
                    /\ runErr' = "panic"
                    /\ UNCHANGED <<idx, toolResults, conversation>>
               ELSE /\ toolResults' = Append(toolResults, r.block)
                    /\ conversation' = Append(conversation, NewUserMessage(<<r.block>>))
                    /\ idx' = idx + 1
                    /\ UNCHANGED <<phase, runErr>>
    /\ UNCHANGED <<tools, debugMode, readUserInput, content, calls,
                   environ, lastIn, lastOut>>

\* Run: the range loop executes a tool_use block; a panic ends the process
Dispatch ==
    /\ phase = "dispatch"
    /\ idx <= Len(content)
    /\ content[idx].type = "tool_use"
    /\ \E proc \in LoopProcs :
         LET b == content[idx]
             r == executeTool(tools, debugMode, b.id, b.name, b.input, proc, fs)
         IN /\ transcript' = transcript \o r.printed
            /\ executed' = executed \o r.ran
            /\ fs' = r.fs
            /\ IF r.panic
               THEN /\ phase' = "panicked"
                    /\ runErr' = "panic"
                    /\ UNCHANGED <<idx, toolResults>>
               ELSE /\ toolResults' = Append(toolResults, r.block)
                    /\ idx' = idx + 1
                    /\ UNCHANGED <<phase, runErr>>
    /\ UNCHANGED <<tools, debugMode, conversation, readUserInput, content, calls,
                   environ, lastIn, lastOut>>

\* The end of a turn going back to the model without appending the tool
\* results.
EndOfTurn_DropsResults ==
    /\ phase = "dispatch"
    /\ idx > Len(content)
    /\ readUserInput' = (Len(toolResults) = 0)
    /\ UNCHANGED conversation
    /\ phase' = "loop"
    /\ UNCHANGED <<tools, debugMode, content, idx, toolResults, runErr, calls,
                   transcript, executed, environ, fs, lastIn, lastOut>>

\* The end of a turn taken as soon as one tool result is there, whether or
\* not the range loop has reached the end of the response.
EndOfTurn_AfterFirstResult ==
    /\ phase = "dispatch"
    /\ idx > Len(content) \/ Len(toolResults) >= 1
    /\ IF Len(toolResults) = 0
       THEN /\ readUserInput' = TRUE
            /\ UNCHANGED conversation
       ELSE /\ readUserInput' = FALSE
            /\ conversation' = Append(conversation, NewUserMessage(toolResults))
    /\ phase' = "loop"
    /\ UNCHANGED <<tools, debugMode, content, idx, toolResults, runErr, calls,
                   transcript, executed, environ, fs, lastIn, lastOut>>

\* The end of a turn with readUserInput set whether or not tools were called.
EndOfTurn_AlwaysReadsInput ==
    /\ phase = "dispatch"
    /\ idx > Len(content)
    /\ readUserInput' = TRUE
    /\ IF Len(toolResults) = 0
       THEN UNCHANGED conversation
       ELSE conversation' = Append(conversation, NewUserMessage(toolResults))
    /\ phase' = "loop"
    /\ UNCHANGED <<tools, debugMode, content, idx, toolResults, runErr, calls,
                   transcript, executed, environ, fs, lastIn, lastOut>>

\* Run: after the range loop, the tool results (if any) are appended
EndOfTurn ==
    /\ phase = "dispatch"
    /\ idx > Len(content)
    /\ IF Len(toolResults) = 0
       THEN /\ readUserInput' = TRUE
            /\ UNCHANGED conversation
       ELSE /\ readUserInput' = FALSE
            /\ conversation' = Append(conversation, NewUserMessage(toolResults))
    /\ phase' = "loop"
    /\ UNCHANGED <<tools, debugMode, content, idx, toolResults, runErr, calls,
                   transcript, executed, environ, fs, lastIn, lastOut>>

Next ==
    \/ Main
    \/ UserInput
    \/ EndOfInput
    \/ InferenceOk
    \/ InferenceFails
    \/ ShowText
    \/ Dispatch
    \/ EndOfTurn

Spec == Init /\ [][Next]_vars

----------------------------------------------------------------------------
(* The tools invoked on their own: execute and the dynamic executor *)

\* No agent is running: the variables of the loop keep their initial values.
NoAgent ==
    /\ environ = [debug |-> FALSE, config |-> ConfigFile(FALSE, FALSE, <<>>)]
    /\ tools = <<>>
    /\ debugMode = FALSE
    /\ conversation = <<>>
    /\ readUserInput = TRUE
    /\ content = <<>>
    /\ idx = 0
    /\ toolResults = <<>>
    /\ runErr = "running"
    /\ calls = 0
    /\ transcript = <<>>
    /\ executed = <<>>

Ls == <<"l", "s">>

ExecInputs ==
    { RawObj(f) : f \in
        { NoMembers,
          [timeout |-> JNum(1)],
          [command |-> JNum(5)],
          [command |-> JStr(<<>>)],
          [command |-> JStr(Ls), timeout |-> JStr(<<"1">>)] }
        \cup { [command |-> JStr(Ls)] }
        \cup { [command |-> JStr(Ls), timeout |-> JNum(n)] : n \in {-1, 0, 1, 2, 30, 299, 300, 301, 500} } }
    \cup {RawNull}

Durations == {0, 1, 2, 29, 30, 31, 299, 300, 301}
ExitCodes == {0, 1, 3, 255}

Procs ==
    { Proc(TRUE, d, c, <<"o">>, <<>>) : d \in Durations, c \in ExitCodes }
    \cup { Proc(TRUE, 0, 3, <<>>, <<"e">>), Proc(FALSE, 0, 0, <<>>, <<>>) }

InitExec ==
    /\ phase = "exec"
    /\ NoAgent
    /\ fs = LoopFS
    /\ lastIn = NoCall
    /\ lastOut = NoResult

\* ExecuteCommand(input).  The call changes nothing a later call reads, so
\* each run makes one call.
CallExecute ==
    /\ phase = "exec"
    /\ lastIn = NoCall
    /\ \E input \in ExecInputs, proc \in Procs :
         /\ lastIn' = [tool |-> "execute", input |-> input, proc |-> proc,
                       config |-> NoConfig, before |-> fs]
         /\ lastOut' = ExecuteCommand(input, proc, fs)
    /\ UNCHANGED <<phase, loopVars, environ, fs>>

DynConfigs ==
    { GitStatus, GoTest, FetchUrl,
      DynTool("slow", <<"make">>, 500, <<>>),
      DynTool("quick", <<"make">>, 1, <<>>),
      DynTool("neg", <<"make">>, -1, <<>>),
      DynTool("broken", <<"echo ", "{{">>, 30, <<>>),
      DynTool("say", <<"echo ", "{{.url}}", " ", "{{.package}}">>, 2,
              <<Param("url", TRUE, <<>>), Param("package", TRUE, <<>>)>>),
      DynTool("say2", <<"echo ", "{{.url}}", " ", "{{.package}}">>, 2,
              <<Param("package", TRUE, <<>>), Param("url", TRUE, <<>>)>>),
      DynTool("mix", <<"echo ", "{{.url}}", " ", "{{.package}}">>, 2,
              <<Param("url", FALSE, <<>>), Param("package", TRUE, <<"./...">>)>>) }

DynInputs ==
    { RawObj(f) : f \in
        { NoMembers,
          [url |-> JStr(<<"u">>)],
          [package |-> JStr(<<"p">>)],
          [url |-> JStr(<<"\"">>), package |-> JStr(<<"BEL">>)],
          [url |-> JNum(5), package |-> JStr(<<>>)],
          [url |-> JNum(1250000), package |-> JArr(<<<<"a">>, <<"b">>>>)],
          [url |-> JStr(<<"\\", "\n">>), package |-> JStr(<<"\r", "U+00E9">>)],
          [url |-> JNull] } }
    \cup {RawNull, RawScalar}

\* The executor of a dynamic tool, invoked with `input`
CallDynamic ==
    /\ phase = "exec"
    /\ lastIn = NoCall
    /\ \E config \in DynConfigs, input \in DynInputs, proc \in Procs :
         /\ lastIn' = [tool |-> "dynamic", input |-> input, proc |-> proc,
                       config |-> config, before |-> fs]
         /\ lastOut' = DynamicExecutor(config, input, proc, fs)
    /\ UNCHANGED <<phase, loopVars, environ, fs>>

NextExec == CallExecute \/ CallDynamic

SpecExec == InitExec /\ [][NextExec]_vars

----------------------------------------------------------------------------
(* The tools invoked on their own: list_files and grep on a fixed tree *)

\* The regular files a tree may hold, with their content.
TreeFiles ==
    (<<"a.txt">> :> FooBar)
    @@ (<<".hidden", "b.txt">> :> Foo)
    @@ (<<"node_modules", "x.js">> :> Foo)
    @@ (<<".git", "config">> :> Foo)
    @@ (<<"src", "node_modules", "y.js">> :> <<"o">>)
    @@ (<<"src", ".git", "config">> :> Foo)
    @@ (<<"src", "a.txt">> :> <<"NUL", "f", "o", "o">>)
    @@ (<<".hidden", "c.bin">> :> <<"NUL", "f", "o", "o">>)
    @@ (<<".env">> :> Foo)

ListTrees ==
    { MkFS([p \in ps |-> TreeFiles[p]]) : ps \in SUBSET DOMAIN TreeFiles }

\* The objects with at most the member `key`, its value one of `values`
Opt(key, values) == {NoMembers} \cup {key :> v : v \in values}

FilterMembers ==
    { g @@ h @@ e :
        g \in Opt("include_git", {JBool(TRUE)}),
        h \in Opt("include_hidden", {JBool(TRUE)}),
        e \in Opt("exclude", {JArr(<<<<"src">>>>), JArr(<<<<"node_modules">>, <<"a.txt">>>>)}) }

ListInputs ==
    { RawObj(p @@ m) :
        p \in Opt("path", {JStr(<<"src">>), JStr(<<"nope">>), JNum(5),
                            JStr(<<"src", "/", "..">>), JStr(<<"a.txt", "/">>)}),
        m \in FilterMembers }

GrepInputs ==
    { RawObj(q @@ p @@ m) :
        q \in Opt("pattern", {JStr(Foo), JStr(<<"a", "r">>), JStr(<<"[">>), JNum(5)}),
        p \in Opt("path", {JStr(<<"src">>), JStr(<<".hidden">>), JStr(<<"src", "/", "..">>)}),
        m \in FilterMembers }

InitList ==
    /\ phase = "list"
    /\ NoAgent
    /\ fs \in ListTrees
    /\ lastIn = NoCall
    /\ lastOut = NoResult

\* ListFiles(input).  Neither tool changes the tree, so each run makes one
\* call on the tree it starts with.
CallListFiles ==
    /\ phase = "list"
    /\ lastIn = NoCall
    /\ \E input \in ListInputs :
         /\ lastIn' = [tool |-> "list_files", input |-> input, proc |-> NoCall.proc,
                       config |-> NoConfig, before |-> fs]
         /\ lastOut' = ListFiles(fs, input)
    /\ UNCHANGED <<phase, loopVars, environ, fs>>

\* Grep(input)
CallGrep ==
    /\ phase = "list"
    /\ lastIn = NoCall
    /\ \E input \in GrepInputs :
         /\ lastIn' = [tool |-> "grep", input |-> input, proc |-> NoCall.proc,
                       config |-> NoConfig, before |-> fs]
         /\ lastOut' = Grep(fs, input)
    /\ UNCHANGED <<phase, loopVars, environ, fs>>

NextList == CallListFiles \/ CallGrep

SpecList == InitList /\ [][NextList]_vars

----------------------------------------------------------------------------
(* The tools invoked on their own: edit_file and read_file *)

EditTrees ==
    { MkFS(NoMembers),
      MkFS(<<"a.txt">> :> FooBar),
      MkFS((<<"a.txt">> :> <<>>) @@ (<<"sub", "b.txt">> :> Foo)) }

EditPaths ==
    { <<"a.txt">>, <<"sub", "/", "b.txt">>, <<"sub">>, <<"new", "/", "new.txt">>,
      <<"a.txt", "/", "new.txt">>, <<"new", "/">>,
      <<"new", "/", "..", "/", "x.txt">>, <<"a.txt", "/", ".">> }

EditInputs ==
    { RawObj(p @@ o @@ n) :
        p \in Opt("path", {JStr(t) : t \in EditPaths}),
        o \in Opt("old_str", {JStr(<<"o">>), JStr(<<"z", "z">>)}),
        n \in Opt("new_str", {JStr(<<"o">>), JStr(<<"x", "y">>)}) }
    \cup { RawObj([path |-> JStr(<<"a.txt">>), old_str |-> JNum(5)]) }

ReadInputs ==
    { RawObj(p) : p \in Opt("path", {JStr(t) : t \in EditPaths} \cup {JNum(5)}) }

\* The edit_file calls one run makes.
MaxEdits == 2

InitEdit ==
    /\ phase = "edit"
    /\ NoAgent
    /\ fs \in EditTrees
    /\ lastIn = NoCall
    /\ lastOut = NoResult

\* EditFile(input)
CallEditFile ==
    /\ phase = "edit"
    /\ calls < MaxEdits
    /\ \E input \in EditInputs :
         /\ lastIn' = [tool |-> "edit_file", input |-> input, proc |-> NoCall.proc,
                       config |-> NoConfig, before |-> fs]
         /\ lastOut' = EditFile(fs, input)
         /\ fs' = EditFile(fs, input).fs
    /\ calls' = calls + 1
    /\ UNCHANGED <<phase, tools, debugMode, conversation, readUserInput, content, idx,
                   toolResults, runErr, transcript, executed, environ>>

\* ReadFile(input)
CallReadFile ==
    /\ phase = "edit"
    /\ \E input \in ReadInputs :
         /\ lastIn' = [tool |-> "read_file", input |-> input, proc |-> NoCall.proc,
                       config |-> NoConfig, before |-> fs]
         /\ lastOut' = ReadFile(fs, input)
    /\ UNCHANGED <<phase, loopVars, environ, fs>>

NextEdit == CallEditFile \/ CallReadFile

SpecEdit == InitEdit /\ [][NextEdit]_vars

----------------------------------------------------------------------------
(* Properties of the conversation loop (specification Spec) *)

----------------------------------------------------------------------------
(* The path filter invoked on its own *)

\* The names a segment of a relative path may have.
SegmentNames == {".git", ".hidden", "node_modules", "src", "a.txt"}

\* The relative paths of one to three segments, as filepath.Rel returns them.
FilterPaths ==
    { PathText(segs) : segs \in UNION {[1..n -> SegmentNames] : n \in 1..3} }

\* The inputs of list_files that configure the filter.
FilterInputs == { RawObj(m) : m \in FilterMembers }

BoolText(b) == IF b THEN <<"true">> ELSE <<"false">>

InitFilter ==
    /\ phase = "filter"
    /\ NoAgent
    /\ fs = LoopFS
    /\ lastIn = NoCall
    /\ lastOut = NoResult

\* filter.ShouldInclude(relPath, isDir) on the filter ListFiles builds from
\* `input`.  The filter keeps no state, so each run makes one call.
CallShouldInclude ==
    /\ phase = "filter"
    /\ lastIn = NoCall
    /\ \E input \in FilterInputs, path \in FilterPaths, isDir \in BOOLEAN :
         /\ lastIn' = [tool |-> "ShouldInclude",
                       input |-> RawObj(("path" :> JStr(path)) @@ ("isDir" :> JBool(isDir))
                                        @@ input.f),
                       proc |-> NoCall.proc, config |-> NoConfig, before |-> fs]
         /\ lastOut' = Ok(BoolText(ShouldInclude(ListFilesFilter(input), path, isDir)), fs)
    /\ UNCHANGED <<phase, loopVars, environ, fs>>

\* filter.ShouldSkipDir(relPath)
CallShouldSkipDir ==
    /\ phase = "filter"
    /\ lastIn = NoCall
    /\ \E input \in FilterInputs, path \in FilterPaths :
         /\ lastIn' = [tool |-> "ShouldSkipDir",
                       input |-> RawObj(("path" :> JStr(path)) @@ input.f),
                       proc |-> NoCall.proc, config |-> NoConfig, before |-> fs]
         /\ lastOut' = Ok(BoolText(ShouldSkipDir(ListFilesFilter(input), path)), fs)
    /\ UNCHANGED <<phase, loopVars, environ, fs>>

NextFilter == CallShouldInclude \/ CallShouldSkipDir

SpecFilter == InitFilter /\ [][NextFilter]_vars

Last(sq) == sq[Len(sq)]

\* Run is between two turns, or has returned.
AtTurnBoundary == phase \in {"loop", "infer", "done", "failed"}

\* Message i is an assistant message with at least one tool-call request.
RequestsTools(i) ==
    conversation[i].role = "assistant" /\ ToolUses(conversation[i].blocks) # <<>>

\* Message i + 1 answers the requests of message i: a user message of one
\* tool-result block per request, in order, each with the id of its request,
\* and no second user message after it.
Answered(i) ==
    LET reqs == ToolUses(conversation[i].blocks) IN
    /\ i + 1 <= Len(conversation)
    /\ conversation[i + 1].role = "user"
    /\ Len(conversation[i + 1].blocks) = Len(reqs)
    /\ \A j \in DOMAIN reqs :
          /\ conversation[i + 1].blocks[j].type = "tool_result"
          /\ conversation[i + 1].blocks[j].id = reqs[j].id
    /\ i + 2 <= Len(conversation) => conversation[i + 2].role = "assistant"

\* C1: whenever Run is between turns or has returned, every assistant message
\* with k >= 1 tool-call requests is immediately followed by exactly one user
\* message of exactly k tool-result blocks, the j-th carrying the id of the
\* j-th request.  Only the last message may be unanswered, and only while its
\* turn is under way (or after a panic has ended the process in that turn).
C1_ToolResultsFollowRequests ==
    \A i \in DOMAIN conversation :
        (RequestsTools(i) /\ (AtTurnBoundary \/ i < Len(conversation))) => Answered(i)

\* A turn with two tool-call requests has been answered and the loop went on.
C1_Witness ==
    /\ phase = "loop"
    /\ \E i \in DOMAIN conversation :
          /\ RequestsTools(i)
          /\ Len(ToolUses(conversation[i].blocks)) = 2
          /\ Answered(i)
          /\ i + 2 <= Len(conversation)

\* The step prints the prompt "You: " and asks getUserMessage for a line.
ReadsUserInput ==
    /\ Len(transcript') = Len(transcript) + 1
    /\ Last(transcript').kind = "prompt"

\* The last response of the model held no tool-call request.
LastResponseWithoutTools ==
    /\ conversation # <<>>
    /\ Last(conversation).role = "assistant"
    /\ ToolUses(Last(conversation).blocks) = <<>>

\* The tool results of the last response have just been appended.
ToolResultsPending ==
    /\ phase = "loop"
    /\ conversation # <<>>
    /\ Last(conversation).role = "user"
    /\ \E j \in DOMAIN Last(conversation).blocks :
          Last(conversation).blocks[j].type = "tool_result"

\* C2: a step of Run reads user input only when the conversation is still
\* empty or the last response held no tool-call request; and once the results
\* of a response with tool-call requests are appended, the next step is a
\* model call.
C2_PromptOnlyWithoutPendingTools ==
    [][ /\ ReadsUserInput => (conversation = <<>> \/ LastResponseWithoutTools)
        /\ ToolResultsPending => (calls' = calls + 1 /\ phase' \in {"dispatch", "failed"})
      ]_vars

\* After a turn with tool calls and a turn without, the user was asked again.
C2_Witness ==
    /\ phase = "infer"
    /\ Len(conversation) = 5
    /\ RequestsTools(2)
    /\ ~RequestsTools(4)
    /\ Last(conversation).blocks[1].type = "text"

\* C3: no failure inside a tool invocation ends the loop: the process never
\* dies of a panic raised by a tool function.
C3_ToolFailureNeverEndsLoop == runErr # "panic"

\* C6: Run ends in two ways only: nil at the end of the input, read while Run
\* awaits user input, and the error of the backend after a failed model call.
C6_RunEndsInTwoWays ==
    phase \notin {"start", "loop", "infer", "dispatch"} =>
        \/ phase = "done" /\ runErr = "nil"
        \/ phase = "failed" /\ runErr = "backend error"

\* The range loop is at a tool-call request that names no registered tool.
AtUnknownTool ==
    /\ phase = "dispatch"
    /\ idx <= Len(content)
    /\ content[idx].type = "tool_use"
    /\ \A i \in DOMAIN tools : tools[i].Name # content[idx].name

\* C7: dispatching a request that names no registered tool yields a result
\* block with the id of the request, the payload "tool not found" and the
\* error flag; no tool function runs, nothing else changes, and the range loop
\* moves on to the next block.
C7_UnknownToolIsReported ==
    [][ AtUnknownTool =>
          /\ toolResults' = Append(toolResults,
                 [type |-> "tool_result", text |-> <<"tool not found">>,
                  id |-> content[idx].id, name |-> "", input |-> RawNull, isErr |-> TRUE])
          /\ executed' = executed
          /\ fs' = fs
          /\ idx' = idx + 1
          /\ phase' = "dispatch"
      ]_vars

\* "tool not found" was reported, the next request of the turn was executed
\* and its results went back to the model.
C7_Witness ==
    /\ phase = "dispatch"
    /\ Len(conversation) >= 4
    /\ conversation[3].role = "user"
    /\ Len(conversation[3].blocks) = 2
    /\ conversation[3].blocks[1].text = <<"tool not found">>
    /\ conversation[3].blocks[1].isErr
    /\ Len(executed) = 1

\* C8: after start-up the agent holds the five built-in tools and the M tools
\* the configuration declares, their names pairwise distinct.
C8_ToolNamesDistinct ==
    (phase # "start" /\ ~LoadDynamicTools(environ.config).err) =>
        /\ Len(tools) = Len(BuiltinTools) + Len(environ.config.tools)
        /\ \A i, j \in DOMAIN tools : i # j => tools[i].Name # tools[j].Name

----------------------------------------------------------------------------
(* Properties of execute (specification SpecExec) *)

\* The last call was ExecuteCommand with an input it accepts.
ExecutedCommand ==
    /\ lastIn.tool = "execute"
    /\ ~UnmarshalFails(lastIn.input, ExecuteCommandShape)
    /\ StrField(lastIn.input, "command") # <<>>

\* C4: when the deadline elapses before the command finishes, and the child
\* process is killed, ExecuteCommand returns the timeout error.
C4_TimeoutIsAnError ==
    (ExecutedCommand /\ KilledByDeadline(lastIn.proc, ExecDeadline(lastIn.input))) =>
        /\ lastOut.err
        /\ lastOut.out = ErrTimedOut(ExecDeadline(lastIn.input))

\* C5: when the command runs to completion within the deadline with exit code
\* n, zero or not, ExecuteCommand returns a result that is no error and whose
\* exit_code is n.
C5_ExitCodeIsReported ==
    (ExecutedCommand /\ lastIn.proc.launch /\ lastIn.proc.dur < ExecDeadline(lastIn.input)) =>
        /\ ~lastOut.err
        /\ ExitCodeOf(lastOut.out) = ToString(lastIn.proc.code)

\* A command that exits with code 3 before its deadline of 2 seconds.
C5_Witness ==
    /\ ExecutedCommand
    /\ ExecDeadline(lastIn.input) = 2
    /\ lastIn.proc.launch /\ lastIn.proc.dur = 1 /\ lastIn.proc.code = 3
    /\ ExitCodeOf(lastOut.out) = "3"

----------------------------------------------------------------------------
(* Properties of list_files (specification SpecList) *)

\* C9: on a tree that holds node_modules/x.js, list_files called without an
\* exclude list returns neither node_modules/ nor a path under it, whatever
\* include_git and include_hidden are.
C9_NodeModulesExcludedByDefault ==
    ( /\ lastIn.tool = "list_files"
      /\ ~HasKey(lastIn.input, "exclude")
      /\ ~HasKey(lastIn.input, "path")
      /\ IsFileAt(lastIn.before, <<"node_modules", "x.js">>) ) =>
        \A i \in DOMAIN ListFilesEntries(lastIn.before, lastIn.input) :
            ListFilesEntries(lastIn.before, lastIn.input)[i][1] # "node_modules"

----------------------------------------------------------------------------
(* Properties of edit_file (specification SpecEdit) *)

\* The path string t leads to a regular file of f.
NamesFile(f, t) == Resolve(f, t).ok /\ IsFileAt(f, Resolve(f, t).p)

\* The last call was edit_file on an existing regular file with a non-empty
\* old_str that does not occur in it.
EditWithAbsentOldStr ==
    LET p == Resolve(lastIn.before, StrField(lastIn.input, "path")).p
        old == StrField(lastIn.input, "old_str")
    IN /\ lastIn.tool = "edit_file"
       /\ NamesFile(lastIn.before, StrField(lastIn.input, "path"))
       /\ old # <<>>
       /\ ~ContainsSeq(lastIn.before[p].data, old)

\* C10: edit_file of an existing file with a non-empty old_str that does not
\* occur in it returns an error and leaves the file, and every other file,
\* as it was.
C10_AbsentOldStrLeavesFile ==
    EditWithAbsentOldStr =>
        /\ lastOut.err
        /\ ~lastOut.panic
        /\ fs = lastIn.before

\* a.txt holds text, and the old_str "zz" with a new_str was asked for.
C10_Witness ==
    /\ EditWithAbsentOldStr
    /\ Segs(StrField(lastIn.input, "path")) = <<"a.txt">>
    /\ lastIn.before[<<"a.txt">>].data # <<>>
    /\ StrField(lastIn.input, "new_str") # <<>>
    /\ lastOut.out = <<"old_str not found in file">>

\* The path string t leads to a file or directory of f.
PathExists(f, t) == Resolve(f, t).ok /\ Exists(f, Resolve(f, t).p)

\* The last call was edit_file with an empty old_str on a path that does not
\* exist.
CreateRequested ==
    /\ lastIn.tool = "edit_file"
    /\ ~UnmarshalFails(lastIn.input, EditFileShape)
    /\ StrField(lastIn.input, "old_str") = <<>>
    /\ ~PathExists(lastIn.before, StrField(lastIn.input, "path"))

\* The call created the regular file p with the content `data`: p and its
\* missing parent directories are there, and every path that existed before
\* is as it was.
Created(p, data) ==
    /\ ~lastOut.err
    /\ IsFileAt(fs, p)
    /\ fs[p].data = data
    /\ \A i \in 1..(Len(p) - 1) : IsDirAt(fs, SubSeq(p, 1, i))
    /\ DOMAIN fs = DOMAIN lastIn.before \cup {SubSeq(p, 1, i) : i \in 1..Len(p)}
    /\ \A q \in DOMAIN lastIn.before : fs[q] = lastIn.before[q]

\* C11 as stated: for every path that does not exist and every new_str,
\* edit_file with an empty old_str succeeds, and afterwards the path exists,
\* its missing parent directories created, and holds exactly new_str.
C11_CreateForEveryNewStr ==
    CreateRequested =>
        Created(Segs(StrField(lastIn.input, "path")), StrField(lastIn.input, "new_str"))

\* path.Clean leaves the relative path string t as it is: segments with one
\* separator between them, none of them "." or "..".
LexicallyClean(t) ==
    /\ t # <<>>
    /\ t[1] # Sep
    /\ t[Len(t)] # Sep
    /\ \A i \in DOMAIN t : t[i] \notin {".", ".."}
    /\ \A i \in 1..(Len(t) - 1) : ~(t[i] = Sep /\ t[i + 1] = Sep)

\* The path can name a new regular file: it is lexically clean and none of
\* its ancestors is a regular file.
NamesNewFile(f, t) ==
    /\ LexicallyClean(t)
    /\ ~UnderFile(f, Segs(t))

\* C11 amended: for every lexically clean path that does not exist and has no
\* regular file among its ancestors, and every non-empty new_str, edit_file
\* with an empty old_str succeeds, and afterwards the path exists, its missing
\* parent directories created, and holds exactly new_str.  With an empty
\* new_str the call is refused (old_str equals new_str) and nothing is
\* created.
C11_CreateForNonEmptyNewStr ==
    /\ ( /\ CreateRequested
         /\ NamesNewFile(lastIn.before, StrField(lastIn.input, "path"))
         /\ StrField(lastIn.input, "new_str") # <<>> ) =>
           Created(Segs(StrField(lastIn.input, "path")), StrField(lastIn.input, "new_str"))
    /\ (CreateRequested /\ StrField(lastIn.input, "new_str") = <<>>) =>
           (lastOut.err /\ fs = lastIn.before)

\* new/new.txt was created, with its parent directory, holding "xy".
C11_Witness ==
    /\ CreateRequested
    /\ StrField(lastIn.input, "path") = <<"new", "/", "new.txt">>
    /\ <<"new">> \notin DOMAIN lastIn.before
    /\ lastOut.out = <<"Successfully created file ", "new", "/", "new.txt">>
    /\ IsDirAt(fs, <<"new">>)
    /\ fs[<<"new", "new.txt">>].data = <<"x", "y">>

----------------------------------------------------------------------------
(* Properties of the deadline (specification SpecExec) *)

\* The documented deadline, in seconds, of a requested timeout t (absent when
\* `present` is false): default 30, at most 300.
ClampedTimeout(present, t) ==
    IF ~present \/ t <= 0 THEN 30
    ELSE IF t <= 300 THEN t
    ELSE 300

\* What a started command that needs proc.dur seconds shows of a deadline of
\* d seconds: one that ends earlier runs to completion and reports its own
\* exit code, one that needs longer is killed and its own exit code is never
\* reported.
RunsUnderDeadline(d) ==
    /\ d \in 1..300
    /\ (lastIn.proc.launch /\ lastIn.proc.dur < d) =>
           (~lastOut.err /\ ExitCodeOf(lastOut.out) = ToString(lastIn.proc.code))
    /\ (lastIn.proc.launch /\ lastIn.proc.dur > d) =>
           (lastOut.err \/ ExitCodeOf(lastOut.out) # ToString(lastIn.proc.code))

\* The last call was the executor of a dynamic tool and it got as far as
\* running its command.
DynamicRanCommand ==
    LET r == ResolveParams(lastIn.config.Parameters, lastIn.input, NoMembers)
        command == RenderTemplate(lastIn.config.Command, r.data)
    IN /\ lastIn.tool = "dynamic"
       /\ lastIn.input.k \in {"object", "null"}
       /\ ~TemplateParseFails(lastIn.config.Command)
       /\ r.ok
       /\ command # <<>>
       /\ JSONUnquote(GoQuote(command)).ok

\* C12: the deadline a command runs with is 30 seconds when the timeout t is
\* absent or t <= 0, t seconds when 1 <= t <= 300 and 300 seconds when
\* t > 300, so it lies in 1..300; and a dynamic tool configured with timeout t
\* runs its command with the deadline execute uses for t.
C12_DeadlineIsClamped ==
    /\ ExecutedCommand =>
         LET d == ClampedTimeout(HasKey(lastIn.input, "timeout"),
                                 IntField(lastIn.input, "timeout"))
         IN /\ ExecDeadline(lastIn.input) = d
            /\ RunsUnderDeadline(d)
    /\ DynamicRanCommand =>
         LET d == ClampedTimeout(TRUE, lastIn.config.Timeout)
         IN /\ DynamicTimeout(lastIn.config) = d
            /\ d = ExecDeadline(RawObj([command |-> JStr(Ls),
                                        timeout |-> JNum(lastIn.config.Timeout)]))
            /\ RunsUnderDeadline(d)

\* A timeout of 500 seconds was asked for and a command that needs 301 seconds
\* was killed by the deadline of 300.
C12_Witness ==
    /\ ExecutedCommand
    /\ IntField(lastIn.input, "timeout") = 500
    /\ lastIn.proc.launch /\ lastIn.proc.dur = 301 /\ lastIn.proc.code = 0
    /\ ExitCodeOf(lastOut.out) # "0"

----------------------------------------------------------------------------
(* Properties of the executor of a dynamic tool (specification SpecExec) *)

\* The last call was the executor of a dynamic tool, with an input that
\* parses as a mapping and a command template that parses; the declared
\* parameters have distinct names.
DynamicResolvesParams ==
    /\ lastIn.tool = "dynamic"
    /\ lastIn.input.k \in {"object", "null"}
    /\ ~TemplateParseFails(lastIn.config.Command)
    /\ \A i, j \in DOMAIN lastIn.config.Parameters :
          i # j => lastIn.config.Parameters[i].Name # lastIn.config.Parameters[j].Name

\* Parameter p has no value in the call input and no default.
Unresolved(p) == ~HasKey(lastIn.input, p.Name) /\ p.Default = <<>>

\* What stands in the command line for token c of the command template when
\* every declared parameter resolves by the documented rule: the text of the
\* resolved value for the field of a declared parameter, <no value> for a
\* field without substitution value.
Substituted(c) ==
    LET ps == lastIn.config.Parameters
        isField == \E n \in DOMAIN PlaceholderOf : PlaceholderOf[n] = c
        name == CHOOSE n \in DOMAIN PlaceholderOf : PlaceholderOf[n] = c
        declared == \E i \in DOMAIN ps : ps[i].Name = name
        p == ps[CHOOSE i \in DOMAIN ps : ps[i].Name = name]
    IN IF ~isField THEN <<c>>
       ELSE IF ~declared THEN <<"<no value>">>
       ELSE IF HasKey(lastIn.input, name) THEN RenderValue(lastIn.input.f[name])
       ELSE IF p.Default # <<>> THEN p.Default
       ELSE <<"<no value>">>

\* C13: in an invocation of a dynamic tool each declared parameter p resolves,
\* wherever it stands among the parameters, to the value of the call input
\* when the input has the key p, otherwise to the declared default when that
\* is not empty, otherwise the invocation fails with the missing-required-
\* parameter error when p is required, and otherwise p has no substitution
\* value.
C13_ParameterResolution ==
    DynamicResolvesParams =>
        LET ps == lastIn.config.Parameters
            r == ResolveParams(ps, lastIn.input, NoMembers)
            fails == \E i \in DOMAIN ps : Unresolved(ps[i]) /\ ps[i].Required
        IN /\ r.ok = ~fails
           /\ fails =>
                 /\ lastOut.err
                 /\ \E i \in DOMAIN ps :
                       /\ Unresolved(ps[i]) /\ ps[i].Required
                       /\ lastOut.out = <<"missing required parameter: ", ps[i].Name>>
           /\ ~fails =>
                 /\ lastOut.out[1] # "missing required parameter: "
                 /\ \A i \in DOMAIN ps :
                       IF HasKey(lastIn.input, ps[i].Name)
                       THEN /\ ps[i].Name \in DOMAIN r.data
                            /\ r.data[ps[i].Name] = lastIn.input.f[ps[i].Name]
                       ELSE IF ps[i].Default # <<>>
                       THEN /\ ps[i].Name \in DOMAIN r.data
                            /\ r.data[ps[i].Name] = JStr(ps[i].Default)
                       ELSE ps[i].Name \notin DOMAIN r.data
           /\ DynamicRanCommand =>
                 lastOut.cmd = Concat([i \in DOMAIN lastIn.config.Command |->
                                          Substituted(lastIn.config.Command[i])])

\* A tool with an optional parameter without default and a required one with
\* a default was invoked with a value for neither: the command ran.
C13_Witness ==
    /\ DynamicResolvesParams
    /\ lastIn.config.Name = "mix"
    /\ lastIn.input = RawObj(NoMembers)
    /\ lastIn.proc.launch
    /\ ~lastOut.err
    /\ lastOut.cmd = <<"echo ", "<no value>", " ", "./...">>

----------------------------------------------------------------------------
(* Properties of dynamic tools in the conversation loop (specification Spec) *)

\* The declared tool d is registered in ts and a request for its name reaches
\* its executor.
Dispatchable(ts, d) ==
    /\ FindTool(ts, d.Name) # 0
    /\ ts[FindTool(ts, d.Name)] = createDynamicToolDefinition(d)

\* The configuration was loaded and declares a tool with a required parameter
\* that has no default.
DeclaresRequiredWithoutDefault ==
    /\ ~LoadDynamicTools(environ.config).err
    /\ \E k \in DOMAIN environ.config.tools :
          \E i \in DOMAIN environ.config.tools[k].Parameters :
              /\ environ.config.tools[k].Parameters[i].Required
              /\ environ.config.tools[k].Parameters[i].Default = <<>>

\* The range loop is at a request for a dynamic tool, its input a mapping
\* without a value for parameter i of the tool, which is required and has no
\* default.
AtMissingRequired(i) ==
    LET at == FindTool(tools, content[idx].name)
        cfg == tools[at].config
    IN /\ phase = "dispatch"
       /\ idx <= Len(content)
       /\ content[idx].type = "tool_use"
       /\ at # 0
       /\ tools[at].Function = "executor"
       /\ content[idx].input.k \in {"object", "null"}
       /\ ~TemplateParseFails(cfg.Command)
       /\ i \in DOMAIN cfg.Parameters
       /\ cfg.Parameters[i].Required
       /\ cfg.Parameters[i].Default = <<>>
       /\ ~HasKey(content[idx].input, cfg.Parameters[i].Name)
       /\ \A j \in 1..(i - 1) :
             ~(cfg.Parameters[j].Required /\ cfg.Parameters[j].Default = <<>>
               /\ ~HasKey(content[idx].input, cfg.Parameters[j].Name))

\* C14: a configuration that declares a tool with a required parameter without
\* default loads, and every tool it declares is registered and dispatchable
\* from start-up on, across every step of the loop; a request for such a tool
\* without that parameter yields the missing-required-parameter error as an
\* error-flagged result, runs no command, changes no file, and the range loop
\* goes on with the tools as they were.
C14_MissingRequiredFailsAtInvocation ==
    [][ /\ DeclaresRequiredWithoutDefault =>
             /\ \A k \in DOMAIN environ.config.tools :
                    Dispatchable(tools', environ.config.tools[k])
             /\ phase # "start" => tools' = tools
        /\ \A i \in 1..2 :
             AtMissingRequired(i) =>
               LET at == FindTool(tools, content[idx].name) IN
               /\ toolResults' = Append(toolResults,
                      NewToolResultBlock(content[idx].id,
                          <<"missing required parameter: ", tools[at].config.Parameters[i].Name>>,
                          TRUE))
               /\ executed' = Append(executed,
                      [at |-> at, fn |-> "executor", id |-> content[idx].id, cmd |-> <<>>])
               /\ fs' = fs
               /\ idx' = idx + 1
               /\ phase' = "dispatch"
      ]_vars

\* fetch_url was requested without its url and failed, go_test was requested
\* next in the same turn and ran its command, and both results went back to
\* the model.
C14_Witness ==
    /\ phase = "loop"
    /\ DeclaresRequiredWithoutDefault
    /\ Len(executed) = 2
    /\ executed[1].cmd = <<>>
    /\ executed[2].cmd = <<"go test ", "./...">>
    /\ Last(conversation).role = "user"
    /\ Last(conversation).blocks[1].text = <<"missing required parameter: ", "url">>
    /\ Last(conversation).blocks[1].isErr
    /\ ~Last(conversation).blocks[2].isErr

\* The configuration file is missing or unreadable, or does not parse as a
\* whole.
ConfigUnusable == ~environ.config.readable \/ ~environ.config.parses

\* C15: when the configuration file is missing, unreadable or does not parse
\* as a whole, start-up does not abort: a warning is printed, the agent is
\* constructed with exactly the five built-in tools read_file, list_files,
\* edit_file, grep and execute, and its loop is started.
C15_ConfigFailureIsNotFatal ==
    [][ (phase = "start" /\ ConfigUnusable) =>
          /\ phase' = "loop"
          /\ runErr' = "running"
          /\ [i \in DOMAIN tools' |-> tools'[i].Name] =
                 <<"read_file", "list_files", "edit_file", "grep", "execute">>
          /\ \A i \in DOMAIN tools' : tools'[i].Function # "executor"
          /\ \E i \in DOMAIN transcript' : transcript'[i].kind = "warning"
          /\ Last(transcript').kind = "banner"
      ]_vars

\* Started with a file that is there but does not parse, the agent has
\* answered a request for a built-in tool.
C15_Witness ==
    /\ environ.config.readable
    /\ ConfigUnusable
    /\ phase = "loop"
    /\ Len(tools) = 5
    /\ Len(executed) = 1
    /\ Len(conversation) = 3

\* The range loop is at a tool-call request.
AtToolUse ==
    /\ phase = "dispatch"
    /\ idx <= Len(content)
    /\ content[idx].type = "tool_use"

\* C16: for every tool-call request the loop dispatches, an entry with the
\* name of the tool and the raw input is written to the transcript, and it is
\* the first thing the dispatch does, before the tool runs and before its
\* result is produced.
C16_EveryDispatchIsLogged ==
    [][ AtToolUse =>
          /\ Len(transcript') > Len(transcript)
          /\ SubSeq(transcript', 1, Len(transcript)) = transcript
          /\ transcript'[Len(transcript) + 1] =
                 Line("tool", content[idx].name, content[idx].input, <<>>)
      ]_vars

----------------------------------------------------------------------------
(* Properties of the path filter (specification SpecFilter) *)

\* Some segment of the path string t is the name n.
HasSegment(t, n) == \E i \in DOMAIN Segs(t) : <<Segs(t)[i]>> = n

\* C17: ShouldInclude returns false when include-git is false and some
\* segment of the path, first, middle or last, is .git; false when the base
\* name is hidden and include-hidden is false; false when some segment of the
\* path equals a configured exclude string; and true only when none of the
\* three rules matches.
C17_ShouldIncludeBySegments ==
    lastIn.tool = "ShouldInclude" =>
        LET path == StrField(lastIn.input, "path")
            flt == ListFilesFilter(lastIn.input)
            git == ~flt.IncludeGit /\ HasSegment(path, <<".git">>)
            hidden == ~flt.IncludeHidden /\ Base(path) \in DotNames /\ Base(path) # "."
            excluded == \E i \in DOMAIN flt.CustomExcludes :
                            HasSegment(path, flt.CustomExcludes[i])
        IN lastOut.out = BoolText(~(git \/ hidden \/ excluded))

----------------------------------------------------------------------------
(* Properties of the traversal (specification SpecList) *)

\* The last call walked the current directory of a tree that holds
\* .git/config, with include_git set to true.
WalkedWithIncludeGit ==
    /\ lastIn.tool \in {"list_files", "grep"}
    /\ ~lastOut.err
    /\ ~HasKey(lastIn.input, "path")
    /\ BoolField(lastIn.input, "include_git")
    /\ IsFileAt(lastIn.before, <<".git", "config">>)

\* C18: list_files called with include_git set to true returns the .git
\* directory and the files in it, and grep called with include_git set to true
\* returns the matching lines of the files in it, whatever include_hidden is.
C18_IncludeGitIncludesGitDirectory ==
    WalkedWithIncludeGit =>
        /\ lastIn.tool = "list_files" =>
              /\ ContainsSeq(lastOut.out, <<"\"", ".git", Sep, "\"">>)
              /\ ContainsSeq(lastOut.out, <<"\"", ".git", Sep, "config", "\"">>)
        /\ (lastIn.tool = "grep" /\ StrField(lastIn.input, "pattern") = Foo) =>
              ContainsSeq(lastOut.out, <<"{file: ", ".git", Sep, "config", ", line: ", "1">>)

\* The last call was a grep of the current directory that returned matches or
\* found none.
GrepSearched ==
    /\ lastIn.tool = "grep"
    /\ ~lastOut.err
    /\ ~HasKey(lastIn.input, "path")

\* The regular files of the tree searched, and those that lie in a directory
\* whose name starts with a dot.
FilesSearched == {p \in DOMAIN lastIn.before : ~lastIn.before[p].isDir}
InHiddenDir(p) == \E i \in 1..(Len(p) - 1) : p[i] \in DotNames

\* The 1-based numbers of the lines of file p that match the pattern.
MatchingLines(p) ==
    LET lines == ScanLines(lastIn.before[p].data, <<>>) IN
    {i \in DOMAIN lines : MatchString(StrField(lastIn.input, "pattern"), lines[i])}

\* The result holds the match (relative file, line number, line text) of line
\* i of file p.
Reported(p, i) ==
    ContainsSeq(lastOut.out,
        <<"{file: ">> \o PathText(p) \o <<", line: ", ToString(i), ", content: ">>
        \o ScanLines(lastIn.before[p].data, <<>>)[i] \o <<"}">>)

\* The number of matches the result holds.
MatchCount == Cardinality({k \in DOMAIN lastOut.out : lastOut.out[k] = "{file: "})

GrepWalked == lastIn.tool = "grep" /\ ~lastOut.err

\* The directory the search started in, the regular files below it, and the
\* path of such a file relative to that directory.
SearchRoot == Resolve(lastIn.before, StrField(lastIn.input, "path")).p
FilesBelowRoot ==
    {p \in FilesSearched : Len(p) > Len(SearchRoot) /\ IsPrefix(SearchRoot, p)}
RelativeToRoot(p) == SubSeq(p, Len(SearchRoot) + 1, Len(p))

\* Some segment of the relative path q is .git; some segment, directory or
\* file name, starts with a dot; some segment is named in the exclude list of
\* the call.
HasGitSegment(q) == \E i \in DOMAIN q : q[i] = ".git"
HasDotSegment(q) == \E i \in DOMAIN q : q[i] \in DotNames
NamedInExclude(q) ==
    \E i \in DOMAIN q :
        \E k \in DOMAIN ListField(lastIn.input, "exclude") :
            <<q[i]>> = ListField(lastIn.input, "exclude")[k]

\* The first byte of file p is a null byte.
IsBinary(p) == lastIn.before[p].data # <<>> /\ lastIn.before[p].data[1] = "NUL"

\* The result holds the match of line i of file p: the path of p relative to
\* the search root, the 1-based line number i, the text of the line.
ReportedFromRoot(p, i) ==
    ContainsSeq(lastOut.out,
        <<"{file: ">> \o PathText(RelativeToRoot(p)) \o <<", line: ", ToString(i), ", content: ">>
        \o ScanLines(lastIn.before[p].data, <<>>)[i] \o <<"}">>)

RequestsPassed ==
    LET reqs == ToolUses(SubSeq(content, 1, idx - 1))
    IN [j \in DOMAIN reqs |-> reqs[j].id]

\* C20: within a turn the requested tool calls run one at a time in the order
\* of the response: a step runs at most one tool function, that of the request
\* the range loop is at, and only when each earlier request of the turn has
\* its result, in order; a model call is issued only when no request of any
\* earlier response is without result; and no step is both a model call and
\* a tool execution.
C20_SequentialDispatch ==
    [][ /\ phase = "dispatch" =>
              [j \in DOMAIN toolResults |-> toolResults[j].id] = RequestsPassed
        /\ executed' # executed =>
              /\ AtToolUse
              /\ calls' = calls
              /\ Len(executed') = Len(executed) + 1
              /\ SubSeq(executed', 1, Len(executed)) = executed
              /\ Last(executed').id = content[idx].id
              /\ \/ /\ idx' = idx + 1
                    /\ Len(toolResults') = Len(toolResults) + 1
                    /\ Last(toolResults').id = content[idx].id
                 \/ phase' = "panicked"
        /\ calls' # calls =>
              /\ calls' = calls + 1
              /\ executed' = executed
              /\ phase # "dispatch"
              /\ \A i \in DOMAIN conversation : RequestsTools(i) => Answered(i)
      ]_vars

\* The two tool calls of one response ran in the order of the response, their
\* results went back, and the next model call was issued.
C20_Witness ==
    /\ phase = "dispatch"
    /\ calls = 2
    /\ Len(executed) = 2
    /\ executed[1].id = "toolu_1"
    /\ executed[2].id = "toolu_2"
    /\ Len(ToolUses(conversation[2].blocks)) = 2
    /\ Len(conversation[3].blocks) = 2
    /\ idx = 1

----------------------------------------------------------------------------
(* Properties of the conversation history (specification Spec) *)

\* C21: the conversation history is append-only: every step of Run leaves it
\* unchanged or appends exactly one message at its end, no message already in
\* it is modified, reordered or removed, and a step that dispatches a
\* tool-call request leaves it unchanged.
C21_HistoryIsAppendOnly ==
    [][ /\ \/ conversation' = conversation
           \/ /\ Len(conversation') = Len(conversation) + 1
              /\ SubSeq(conversation', 1, Len(conversation)) = conversation
        /\ AtToolUse => conversation' = conversation
        /\ executed' # executed => conversation' = conversation
      ]_vars

\* Two turns with tool calls have run and the history holds the user's line,
\* both responses and both messages of results.
C21_Witness ==
    /\ phase = "loop"
    /\ Len(conversation) = 5
    /\ Len(executed) >= 2
    /\ conversation[1].blocks[1].type = "text"
    /\ RequestsTools(2) /\ Answered(2)
    /\ RequestsTools(4) /\ Answered(4)

\* The last call was a traversal that came to its end.
Walked ==
    /\ lastIn.tool \in {"list_files", "grep"}
    /\ ~lastOut.err
    /\ ~lastOut.panic

WalkRoot == Resolve(lastIn.before, StrField(lastIn.input, "path")).p

\* d is a directory below the root of the traversal that the filter of the
\* call excludes.
Pruned(d) ==
    /\ IsDirAt(lastIn.before, d)
    /\ IsPrefix(WalkRoot, d)
    /\ d # WalkRoot
    /\ ShouldSkipDir(ListFilesFilter(lastIn.input), RelPath(WalkRoot, d))

\* The result of list_files names p, as a file or as a directory.
ListedPath(p) ==
    \/ ContainsSeq(lastOut.out, <<"\"">> \o RelPath(WalkRoot, p) \o <<"\"">>)
    \/ ContainsSeq(lastOut.out, <<"\"">> \o RelPath(WalkRoot, p) \o <<Sep, "\"">>)

\* The result of grep holds a match in p.
SearchedPath(p) ==
    ContainsSeq(lastOut.out, <<"{file: ">> \o RelPath(WalkRoot, p) \o <<", line: ">>)

\* C22: in a traversal of list_files or grep, a directory for which
\* ShouldSkipDir is true is never descended into: neither the directory nor
\* any file or directory below it, whatever its name, is visited, listed or
\* searched.
C22_ExcludedDirectoryIsPruned ==
    Walked =>
        LET walk == WalkFrom(lastIn.before, WalkRoot, WalkRoot,
                             ListFilesFilter(lastIn.input))
            visited == {walk[i].abs : i \in DOMAIN walk}
        IN
        \A d \in DOMAIN lastIn.before :
            Pruned(d) =>
                \A p \in DOMAIN lastIn.before :
                    IsPrefix(d, p) =>
                        /\ p \notin visited
                        /\ lastIn.tool = "list_files" => ~ListedPath(p)
                        /\ lastIn.tool = "grep" => ~SearchedPath(p)

\* list_files with exclude ["src"], include_git and include_hidden set to true
\* listed .git/config but nothing of src, which holds src/.git/config and
\* src/a.txt.
C22_Witness ==
    /\ Walked
    /\ lastIn.tool = "list_files"
    /\ WalkRoot = <<>>
    /\ lastIn.input.f = [include_git |-> JBool(TRUE), include_hidden |-> JBool(TRUE),
                         exclude |-> JArr(<<<<"src">>>>)]
    /\ Pruned(<<"src">>)
    /\ IsFileAt(lastIn.before, <<"src", ".git", "config">>)
    /\ IsFileAt(lastIn.before, <<"src", "a.txt">>)
    /\ ListedPath(<<".git", "config">>)
    /\ ~ListedPath(<<"src", "a.txt">>)

----------------------------------------------------------------------------
(* Properties of the lookup by name (specification Spec) *)

\* Two tools of the agent have the same name.
NameShared(name) ==
    \E i, j \in DOMAIN tools : i # j /\ tools[i].Name = name /\ tools[j].Name = name

\* C23: when two tools of the agent share a name, every dispatch of that name
\* executes the one registered first and no other: the function invoked is
\* that of the first tool of that name in the collection, so a dynamic tool
\* named like a built-in tool never runs its command.
C23_FirstRegisteredWins ==
    [][ (AtToolUse /\ NameShared(content[idx].name)) =>
          /\ Len(executed') = Len(executed) + 1
          /\ SubSeq(executed', 1, Len(executed)) = executed
          /\ tools[Last(executed').at].Name = content[idx].name
          /\ \A j \in 1..(Last(executed').at - 1) : tools[j].Name # content[idx].name
          /\ Last(executed').fn = tools[Last(executed').at].Function
          /\ (\E i \in DOMAIN BuiltinTools : BuiltinTools[i].Name = content[idx].name) =>
                 /\ Last(executed').fn # "executor"
                 /\ Last(executed').cmd # ShadowReadFile.Command
      ]_vars

\* The configuration declares a tool named read_file; read_file was
\* dispatched in two turns and both times the built-in function ran.
C23_Witness ==
    /\ NameShared("read_file")
    /\ Len(executed) = 2
    /\ \A k \in 1..2 : executed[k].fn = "ReadFile" /\ executed[k].at = 1
    /\ Len(conversation) = 5
    /\ conversation[3].blocks[1].text = FooBar
    /\ conversation[5].blocks[1].text = FooBar

\* The roles of the history alternate, the first being the user's.
RolesAlternate ==
    \A i \in DOMAIN conversation :
        conversation[i].role = (IF i % 2 = 1 THEN "user" ELSE "assistant")

\* The last message is the user's text, or the tool results of the assistant
\* message before it.
EndsWithUserTurn ==
    /\ Last(conversation).role = "user"
    /\ \/ /\ Len(Last(conversation).blocks) = 1
          /\ Last(conversation).blocks[1].type = "text"
       \/ /\ Len(conversation) >= 2
          /\ RequestsTools(Len(conversation) - 1)
          /\ Answered(Len(conversation) - 1)

\* C24: at every model call Run issues, the history handed to the model is
\* not empty, starts with a user message, alternates strictly between user and
\* assistant messages, and ends with a user message: the user's text or the
\* tool results of the assistant message before it.
C24_HistoryAlternatesAtModelCall ==
    [][ calls' # calls =>
          /\ conversation # <<>>
          /\ conversation[1].role = "user"
          /\ RolesAlternate
          /\ EndsWithUserTurn
      ]_vars

\* Three model calls were issued: on the user's first line, on the user's
\* second line after a response without tool calls, and on tool results.
C24_Witness ==
    /\ calls = 3
    /\ phase = "dispatch"
    /\ Len(conversation) = 6
    /\ ~RequestsTools(2)
    /\ conversation[3].blocks[1].type = "text"
    /\ RequestsTools(4)
    /\ conversation[5].blocks[1].type = "tool_result"
    /\ RolesAlternate

----------------------------------------------------------------------------
(* Properties of an empty old_str on an existing file (specification SpecEdit) *)

\* edit_file was called with an input that decodes, an empty old_str and a
\* non-empty new_str, on a path that named a regular file.
InsertRequested ==
    /\ lastIn.tool = "edit_file"
    /\ ~UnmarshalFails(lastIn.input, EditFileShape)
    /\ StrField(lastIn.input, "old_str") = <<>>
    /\ StrField(lastIn.input, "new_str") # <<>>
    /\ NamesFile(lastIn.before, StrField(lastIn.input, "path"))

\* s with new written before each of its characters and once after the last:
\* Len(s) + 1 copies of new, the characters of s between them.
InsertedAround(s, new) ==
    LET w == Len(new) + 1 IN
    [k \in 1..(Len(s) * w + Len(new)) |->
        IF (k - 1) % w < Len(new)
        THEN new[((k - 1) % w) + 1]
        ELSE s[((k - 1) \div w) + 1]]

\* C25: edit_file with an empty old_str and a non-empty new_str on a file
\* that exists does not fail and does not leave the file as it was: it returns
\* "OK", and the file holds its old content with new_str inserted before
\* every character and once after the last one; nothing else changes.
C25_EmptyOldStrInsertsEverywhere ==
    InsertRequested =>
        LET p == Resolve(lastIn.before, StrField(lastIn.input, "path")).p IN
        /\ ~lastOut.err
        /\ ~lastOut.panic
        /\ lastOut.out = <<"OK">>
        /\ IsFileAt(fs, p)
        /\ fs[p].data = InsertedAround(lastIn.before[p].data, StrField(lastIn.input, "new_str"))
        /\ fs[p].data # lastIn.before[p].data
        /\ DOMAIN fs = DOMAIN lastIn.before
        /\ \A q \in DOMAIN fs \ {p} : fs[q] = lastIn.before[q]

\* sub/b.txt held "foo" and holds "xyfxyoxyoxy" after the call.
C25_Witness ==
    /\ InsertRequested
    /\ StrField(lastIn.input, "path") = <<"sub", "/", "b.txt">>
    /\ lastIn.before[<<"sub", "b.txt">>].data = Foo
    /\ lastOut.out = <<"OK">>
    /\ fs[<<"sub", "b.txt">>].data =
         <<"x", "y", "f", "x", "y", "o", "x", "y", "o", "x", "y">>

----------------------------------------------------------------------------
(* Properties of debug mode (specification Spec) *)

\* The lines of a transcript that debug mode did not add.
WithoutDebugLines(lines) == SelectSeq(lines, LAMBDA l : l.kind # "debug")

\* C26: the debug flag only affects what is printed.  The flag is fixed when
\* the agent is constructed, and every dispatch of a tool-call request is the
\* dispatch the run with the flag the other way round makes of the same
\* request with the same tool outcome: the same tool execution, the same
\* result block (payload and error flag), the same file system and the same
\* conversation history; the two differ only in the debug lines printed.
C26_DebugOnlyAffectsPrinting ==
    [][ /\ phase # "start" => debugMode' = debugMode
        /\ AtToolUse =>
             \E proc \in LoopProcs :
                LET b == content[idx]
                    this == executeTool(tools, debugMode, b.id, b.name, b.input, proc, fs)
                    other == executeTool(tools, ~debugMode, b.id, b.name, b.input, proc, fs)
                IN /\ transcript' = transcript \o this.printed
                   /\ WithoutDebugLines(this.printed) = WithoutDebugLines(other.printed)
                   /\ other.panic = this.panic
                   /\ other.block = this.block
                   /\ other.ran = this.ran
                   /\ other.fs = this.fs
                   /\ executed' = executed \o other.ran
                   /\ fs' = other.fs
                   /\ toolResults' = IF other.panic THEN toolResults
                                     ELSE Append(toolResults, other.block)
                   /\ idx' = IF other.panic THEN idx ELSE idx + 1
                   /\ phase' = IF other.panic THEN "panicked" ELSE phase
                   /\ conversation' = conversation
      ]_vars

\* With debug mode on, a tool ran and failed and another ran and succeeded;
\* both results were printed and both are in the history.
C26_Witness ==
    /\ debugMode
    /\ phase = "loop"
    /\ Len(executed) >= 2
    /\ \E l \in Range(transcript) :
          l.kind = "debug" /\ SubSeq(l.text, 1, 1) = <<"Tool error: ">>
    /\ \E l \in Range(transcript) :
          l.kind = "debug" /\ SubSeq(l.text, 1, 1) = <<"Tool response: ">>
    /\ \E i \in DOMAIN conversation :
          /\ conversation[i].role = "user"
          /\ \E j, k \in DOMAIN conversation[i].blocks :
                /\ conversation[i].blocks[j].type = "tool_result"
                /\ conversation[i].blocks[j].isErr
                /\ conversation[i].blocks[k].type = "tool_result"
                /\ ~conversation[i].blocks[k].isErr

----------------------------------------------------------------------------
(* Properties of the hand-over to ExecuteCommand (specification SpecExec) *)

\* The last call was the executor of a dynamic tool and it rendered a command
\* line from its template: the input parsed as a mapping, the template parsed
\* and no required parameter was missing.
DynamicRendered ==
    /\ lastIn.tool = "dynamic"
    /\ lastIn.input.k \in {"object", "null"}
    /\ ~TemplateParseFails(lastIn.config.Command)
    /\ ResolveParams(lastIn.config.Parameters, lastIn.input, NoMembers).ok

\* The command line the last call rendered.
RenderedCommand ==
    RenderTemplate(lastIn.config.Command,
                   ResolveParams(lastIn.config.Parameters, lastIn.input, NoMembers).data)

\* C27: for every command line a dynamic tool renders from its template, the
\* command ExecuteCommand runs is that same line: quoting it with %q into a
\* JSON document and decoding the document again never fails and gives the
\* line back, whatever characters it holds.
C27_QuotedCommandRoundTrips ==
    DynamicRendered =>
        /\ JSONUnquote(GoQuote(RenderedCommand)).ok
        /\ JSONUnquote(GoQuote(RenderedCommand)).s = RenderedCommand
        /\ SprintfInput(RenderedCommand, DynamicTimeout(lastIn.config)) # RawInvalid
        /\ lastOut.cmd = RenderedCommand
        /\ lastOut = ExecuteCommand(RawObj([command |-> JStr(RenderedCommand),
                                            timeout |-> JNum(DynamicTimeout(lastIn.config))]),
                                    lastIn.proc, lastIn.before)

====
